---- MODULE Spec2Model ----
(***************************************************************************)
(* StockNote backend: the journal-entry (trade) and focus-stock REST       *)
(* handlers, the Mongoose schemas behind them (validators and pre-save     *)
(* hooks) and the aggregation statics.                                     *)
(*                                                                         *)
(* Prices are whole currency units, percentages are exact reduced          *)
(* fractions <<numerator, denominator>>, instants are integers             *)
(* YYYYMMDDS (S = one of ten slots of the day), so that integer order is   *)
(* chronological order and the calendar fields can be read back.           *)
(*                                                                         *)
(* backend/routes/journalEntries.js holds two revisions of the router      *)
(* (lines 1-384 and 385-782); `version` says which one is deployed.        *)
(***************************************************************************)
EXTENDS Integers, Sequences, FiniteSets, TLC

VARIABLES
  version,      \* 1 or 2: the deployed revision of routes/journalEntries.js
  now,          \* the server clock (new Date())
  entries,      \* JournalEntry collection: _id -> document
  nextEntryId,  \* next _id the JournalEntry collection hands out
  focus,        \* FocusStock collection: _id -> document
  nextFocusId,  \* next _id the FocusStock collection hands out
  req,          \* the last request handled
  resp,         \* the response sent to it
  clock,        \* Date.now() in milliseconds, for the quote services
  cache,        \* MarketService.cache: upper-cased symbol -> { data, timestamp }
  inflight,     \* calls of MarketService waiting for apiService.makeRequest
  event,        \* the last call of MarketService and what it has returned
  quoted,       \* the last call of a backend quote service and its outcome
  session       \* the browser: useAuth's authState, localStorage, the last call

marketVars == <<clock, cache, inflight, event, quoted, session>>

vars == <<version, now, entries, nextEntryId, focus, nextFocusId, req, resp,
          clock, cache, inflight, event, quoted, session>>

----------------------------------------------------------------------------
(* Bounds *)

MaxEntries == 2
MaxFocus == 2

----------------------------------------------------------------------------
(* Values *)

\* JavaScript undefined / null: a field that is absent
Undefined == -1

Users == {"A", "B"}

Date(y, m, d, s) == ((y * 100 + m) * 100 + d) * 10 + s

\* Date.prototype.setHours(23, 59, 59, 999) on the day of t
EndOfDay(t) == (t \div 10) * 10 + 9

\* Date.prototype.getFullYear
GetFullYear(t) == t \div 100000

MonthNames == <<"January", "February", "March", "April", "May", "June", "July",
                "August", "September", "October", "November", "December">>

\* toLocaleDateString('en-US', { month: 'long' })
MonthLong(t) == MonthNames[(t \div 1000) % 100]

\* the instants the server clock runs through
Clock == <<Date(2024, 1, 15, 3), Date(2024, 1, 15, 8)>>

\* String.prototype.trim
Trim(s) == CASE s = " aapl " -> "aapl"
             [] s = "   " -> ""
             [] OTHER -> s

\* String.prototype.toUpperCase
ToUpperCase(s) == CASE s = "aapl" -> "AAPL"
                    [] s = " aapl " -> " AAPL "
                    [] s = "tcs" -> "TCS"
                    [] OTHER -> s

\* String.prototype.length
StrLen(s) == CASE s = "" -> 0
               [] s = "aapl" -> 4
               [] s = "AAPL" -> 4
               [] s = " aapl " -> 6
               [] s = "   " -> 3
               [] s = "tcs" -> 3
               [] s = "TCS" -> 3
               [] s = "breakout" -> 8
               [] OTHER -> 4

Abs(x) == IF x < 0 THEN -x ELSE x

RECURSIVE Gcd(_, _)
Gcd(a, b) == IF b = 0 THEN a ELSE Gcd(b, a % b)

\* the number n / d (d > 0) as a reduced fraction
Ratio(n, d) == LET g == Gcd(Abs(n), d) IN <<n \div g, d \div g>>

RatioAdd(p, q) == Ratio(p[1] * q[2] + q[1] * p[2], p[2] * q[2])

----------------------------------------------------------------------------
(* models/JournalEntry.js: the schema *)

\* `this` inside a schema validator that findOneAndUpdate runs with
\* { runValidators: true } and no `context`: it is not the stored document,
\* so this.status, this.entryDate, this.tradeTaken and this.dateAdded are
\* all undefined there.
UpdateThis == [status |-> "undefined", entryDate |-> Undefined,
               tradeTaken |-> "undefined", dateAdded |-> Undefined]

\* entryDate.validate.validator
EntryDateValidator(value, t) == value <= t

\* exitPrice.validate.validator
ExitPriceValidator(self, value) ==
  self.status = "open" \/ (self.status = "closed" /\ value # Undefined)

\* exitDate.validate.validator
ExitDateValidator(self, value) ==
  IF self.status = "closed" /\ value = Undefined THEN FALSE
  ELSE IF value # Undefined /\ self.entryDate # Undefined /\ value < self.entryDate
       THEN FALSE
       ELSE TRUE

Opt(cond, e) == IF cond THEN <<e>> ELSE <<>>

\* The messages of the ValidationError that validating the paths of `d`
\* raises (<<>>: none).  `self` is what the validators see as `this`.
\* Mongoose runs no validator but `required` on an undefined value.
SchemaErrors(self, d, t) ==
     Opt(d.stockName = "", "Stock name is required")
  \o Opt(StrLen(d.stockName) > 20, "Stock name cannot exceed 20 characters")
  \o Opt(d.entryPrice = Undefined, "Entry price is required")
  \o Opt(d.entryPrice # Undefined /\ d.entryPrice < 0, "Entry price must be positive")
  \o Opt(d.entryDate = Undefined, "Entry date is required")
  \o Opt(d.entryDate # Undefined /\ ~EntryDateValidator(d.entryDate, t),
         "Entry date cannot be in the future")
  \o Opt(d.currentPrice = Undefined, "Current price is required")
  \o Opt(d.currentPrice # Undefined /\ d.currentPrice < 0, "Current price must be positive")
  \o Opt(d.status \notin {"open", "closed"}, "Status must be either open or closed")
  \o Opt(d.quantity < 1, "Quantity must be at least 1")
  \o Opt(d.exitPrice # Undefined /\ d.exitPrice < 0, "Exit price must be positive")
  \o Opt(d.exitPrice # Undefined /\ ~ExitPriceValidator(self, d.exitPrice),
         "Exit price is required for closed trades")
  \o Opt(d.exitDate # Undefined /\ ~ExitDateValidator(self, d.exitDate),
         "Exit date must be after entry date and is required for closed trades")

\* the hook with the quantity left out of pnl
PreSaveWithoutQuantity(d) ==
  LET dated == [d EXCEPT !.month = MonthLong(d.entryDate),
                         !.year = GetFullYear(d.entryDate)]
  IN IF d.status = "closed" /\ d.exitPrice # Undefined /\ d.exitPrice # 0
     THEN [dated EXCEPT
             !.pnlPercentage = Ratio((d.exitPrice - d.entryPrice) * 100, d.entryPrice),
             !.pnl = d.exitPrice - d.entryPrice,
             !.currentPrice = d.exitPrice]
     ELSE [dated EXCEPT
             !.pnlPercentage = Ratio((d.currentPrice - d.entryPrice) * 100, d.entryPrice),
             !.pnl = d.currentPrice - d.entryPrice]

\* the hook computing a closed trade from currentPrice before it overwrites
\* currentPrice with exitPrice
PreSaveFromCurrentPrice(d) ==
  LET dated == [d EXCEPT !.month = MonthLong(d.entryDate),
                         !.year = GetFullYear(d.entryDate)]
      qty == IF d.quantity = Undefined \/ d.quantity = 0 THEN 1 ELSE d.quantity
      computed == [dated EXCEPT
                     !.pnlPercentage = Ratio((d.currentPrice - d.entryPrice) * 100,
                                             d.entryPrice),
                     !.pnl = (d.currentPrice - d.entryPrice) * qty]
  IN IF d.status = "closed" /\ d.exitPrice # Undefined /\ d.exitPrice # 0
     THEN [computed EXCEPT !.currentPrice = d.exitPrice]
     ELSE computed

\* journalEntrySchema.pre('save')
PreSave(d) ==
  LET dated == [d EXCEPT !.month = MonthLong(d.entryDate),
                         !.year = GetFullYear(d.entryDate)]
      qty == IF d.quantity = Undefined \/ d.quantity = 0 THEN 1 ELSE d.quantity
  IN IF d.status = "closed" /\ d.exitPrice # Undefined /\ d.exitPrice # 0
     THEN [dated EXCEPT
             !.pnlPercentage = Ratio((d.exitPrice - d.entryPrice) * 100, d.entryPrice),
             !.pnl = (d.exitPrice - d.entryPrice) * qty,
             !.currentPrice = d.exitPrice]
     ELSE [dated EXCEPT
             !.pnlPercentage = Ratio((d.currentPrice - d.entryPrice) * 100, d.entryPrice),
             !.pnl = (d.currentPrice - d.entryPrice) * qty]

\* new JournalEntry(data): the schema's setters (uppercase, trim) and defaults
\* (pnl 0, pnlPercentage 0, month and year unset until the hook runs)
NewJournalEntry(data) ==
  [user |-> data.user,
   stockName |-> Trim(ToUpperCase(data.stockName)),
   entryPrice |-> data.entryPrice,
   entryDate |-> data.entryDate,
   currentPrice |-> data.currentPrice,
   status |-> data.status,
   quantity |-> data.quantity,
   isTeamTrade |-> data.isTeamTrade,
   exitPrice |-> data.exitPrice,
   exitDate |-> data.exitDate,
   pnl |-> 0,
   pnlPercentage |-> <<0, 1>>,
   month |-> data.month,
   year |-> data.year]

----------------------------------------------------------------------------
(* routes/journalEntries.js: the express-validator chains.  An error is     *)
(* [param, msg]; every validator of every chain runs, none bails out.       *)

Err(param, msg) == [param |-> param, msg |-> msg]

\* isFloat({ min: 0.01 }) on a whole number of currency units
\* the test with 0 let through: isFloat({ min: 0 })
IsFloatNotNegative(v) == v # Undefined /\ v >= 0

IsFloatMin(v) == v # Undefined /\ v >= 1

\* the validators both revisions share: stockName ... quantity
CommonChain(body, t) ==
     Opt(StrLen(Trim(body.stockName)) \notin 1..20,
         Err("stockName", "Stock name must be between 1 and 20 characters"))
  \o Opt(~IsFloatMin(body.entryPrice),
         Err("entryPrice", "Entry price must be greater than 0"))
  \o Opt(body.entryDate = Undefined,
         Err("entryDate", "Entry date must be a valid date"))
  \o Opt(body.entryDate # Undefined /\ body.entryDate > EndOfDay(t),
         Err("entryDate", "Entry date cannot be in the future"))
  \o Opt(~IsFloatMin(body.currentPrice),
         Err("currentPrice", "Current price must be greater than 0"))
  \o Opt(body.status \notin {"open", "closed"},
         Err("status", "Status must be either open or closed"))
  \o Opt(body.quantity # Undefined /\ body.quantity < 1,
         Err("quantity", "Quantity must be at least 1"))

\* validateJournalEntry, first revision: the exit fields are .optional(), so
\* an absent exitPrice or exitDate skips its chain whatever the status is
ValidateJournalEntryV1(body, t) ==
     CommonChain(body, t)
  \o Opt(body.exitPrice # Undefined /\ body.status = "closed" /\ body.exitPrice <= 0,
         Err("exitPrice",
             "Exit price is required and must be greater than 0 for closed trades"))
  \o (IF body.exitDate # Undefined /\ body.status = "closed" /\ body.entryDate # Undefined
      THEN IF body.exitDate < body.entryDate
           THEN <<Err("exitDate", "Exit date must be after entry date")>>
           ELSE Opt(body.exitDate > EndOfDay(t),
                    Err("exitDate", "Exit date cannot be in the future"))
      ELSE <<>>)
  \o Opt(body.year # Undefined /\ body.year \notin 1900..2100,
         Err("year", "Year must be a valid year"))

\* validateJournalEntry, second revision: .if(body('status').equals('closed'))
ValidateJournalEntryV2(body, t) ==
     CommonChain(body, t)
  \o (IF body.status = "closed"
      THEN    Opt(body.exitPrice = Undefined,
                  Err("exitPrice", "Exit price is required for closed trades"))
           \o Opt(~IsFloatMin(body.exitPrice),
                  Err("exitPrice", "Exit price must be greater than 0"))
           \o Opt(body.exitDate = Undefined,
                  Err("exitDate", "Exit date is required for closed trades"))
           \o Opt(body.exitDate = Undefined,
                  Err("exitDate", "Exit date must be a valid date"))
           \o (IF body.exitDate # Undefined /\ body.entryDate # Undefined
               THEN IF body.exitDate < body.entryDate
                    THEN <<Err("exitDate", "Exit date must be after entry date")>>
                    ELSE Opt(body.exitDate > EndOfDay(t),
                             Err("exitDate", "Exit date cannot be in the future"))
               ELSE <<>>)
      ELSE <<>>)

validateJournalEntry(v, body, t) ==
  IF v = 1 THEN ValidateJournalEntryV1(body, t) ELSE ValidateJournalEntryV2(body, t)

----------------------------------------------------------------------------
(* Responses: { success, message, errors } with the HTTP status; `id` is    *)
(* the _id of data.entry / data.focusStock (0: no data).                    *)

Response(status, message, errors, id) ==
  [status |-> status, message |-> message, errors |-> errors, id |-> id]

\* errors.array().map(err => err.msg)
MsgsOfChain(errs) == [i \in 1..Len(errs) |-> [msg |-> errs[i].msg]]

\* Object.values(error.errors).map(e => e.message)
MsgsOfSchema(msgs) == [i \in 1..Len(msgs) |-> [msg |-> msgs[i]]]

ValidationFailed(errors) == Response(400, "Validation failed", errors, 0)

\* the checks the second revision repeats inside the handlers (597-612, 680-695)
ExitCheckV2(body) ==
  IF body.status = "closed"
  THEN IF body.exitPrice = Undefined \/ body.exitPrice <= 0
       THEN <<[msg |-> "Exit price is required and must be greater than 0 for closed trades"]>>
       ELSE Opt(body.exitDate = Undefined,
                [msg |-> "Exit date is required for closed trades"])
  ELSE <<>>

\* the fields with the exit fields copied whatever the status is
EntryFieldsWithExit(v, body) ==
  [stockName |-> Trim(ToUpperCase(Trim(body.stockName))),
   entryPrice |-> body.entryPrice,
   entryDate |-> body.entryDate,
   currentPrice |-> body.currentPrice,
   status |-> body.status,
   quantity |-> IF body.quantity = Undefined \/ body.quantity = 0 THEN 1 ELSE body.quantity,
   isTeamTrade |-> body.isTeamTrade,
   exitPrice |-> body.exitPrice,
   exitDate |-> body.exitDate,
   month |-> IF v = 1 THEN MonthLong(body.entryDate) ELSE "",
   year |-> IF v = 1 THEN GetFullYear(body.entryDate) ELSE Undefined]

\* the fields both handlers copy from the body; the exit fields only when
\* status is closed, month and year only in the first revision
EntryFields(v, body) ==
  [stockName |-> Trim(ToUpperCase(Trim(body.stockName))),
   entryPrice |-> body.entryPrice,
   entryDate |-> body.entryDate,
   currentPrice |-> body.currentPrice,
   status |-> body.status,
   quantity |-> IF body.quantity = Undefined \/ body.quantity = 0 THEN 1 ELSE body.quantity,
   isTeamTrade |-> body.isTeamTrade,
   exitPrice |-> IF body.status = "closed" THEN body.exitPrice ELSE Undefined,
   exitDate |-> IF body.status = "closed" THEN body.exitDate ELSE Undefined,
   month |-> IF v = 1 THEN MonthLong(body.entryDate) ELSE "",
   year |-> IF v = 1 THEN GetFullYear(body.entryDate) ELSE Undefined]

----------------------------------------------------------------------------
(* routes/journalEntries.js: the handlers, as functions of the collection   *)
(* and the request.  Each yields [store, resp].                             *)

Outcome(store, r) == [store |-> store, resp |-> r]

\* the filter with the user left out: { _id: req.params.id }
OwnEntryOfAnyUser(store, u, id) == id \in DOMAIN store

\* the filter { _id: req.params.id, user: req.user._id }
OwnEntry(store, u, id) == id \in DOMAIN store /\ store[id].user = u

\* router.post('/')
PostEntryOutcome(v, t, store, nid, u, body) ==
  LET errs == validateJournalEntry(v, body, t)
      doc == NewJournalEntry([EntryFields(v, body) EXCEPT !.stockName = @] @@ [user |-> u])
      invalid == SchemaErrors(doc, doc, t)
  IN IF errs # <<>> THEN Outcome(store, ValidationFailed(MsgsOfChain(errs)))
     ELSE IF v = 2 /\ ExitCheckV2(body) # <<>>
     THEN Outcome(store, ValidationFailed(ExitCheckV2(body)))
     ELSE IF invalid # <<>>
     THEN Outcome(store, ValidationFailed(MsgsOfSchema(invalid)))
     ELSE Outcome(store @@ (nid :> PreSave(doc)),
                  Response(201, "Journal entry created successfully", <<>>, nid))

\* the update with quantity written only when the payload has one
SetEntryFieldsKeepingQuantity(v, d, body) ==
  LET f == EntryFields(v, body)
      base == [d EXCEPT !.stockName = f.stockName,
                        !.entryPrice = f.entryPrice,
                        !.entryDate = f.entryDate,
                        !.currentPrice = f.currentPrice,
                        !.status = f.status,
                        !.quantity = IF body.quantity = Undefined THEN @ ELSE f.quantity,
                        !.isTeamTrade = f.isTeamTrade]
      exits == IF body.status = "closed"
               THEN [base EXCEPT !.exitPrice = f.exitPrice, !.exitDate = f.exitDate]
               ELSE base
  IN IF v = 1 THEN [exits EXCEPT !.month = f.month, !.year = f.year] ELSE exits

\* findOneAndUpdate's $set of updateData on the matched document: the keys
\* updateData has; an undefined value is written as null
SetEntryFields(v, d, body) ==
  LET f == EntryFields(v, body)
      base == [d EXCEPT !.stockName = f.stockName,
                        !.entryPrice = f.entryPrice,
                        !.entryDate = f.entryDate,
                        !.currentPrice = f.currentPrice,
                        !.status = f.status,
                        !.quantity = f.quantity,
                        !.isTeamTrade = f.isTeamTrade]
      exits == IF body.status = "closed"
               THEN [base EXCEPT !.exitPrice = f.exitPrice, !.exitDate = f.exitDate]
               ELSE base
  IN IF v = 1 THEN [exits EXCEPT !.month = f.month, !.year = f.year] ELSE exits

\* router.put('/:id')
PutEntryOutcome(v, t, store, u, id, body) ==
  LET errs == validateJournalEntry(v, body, t)
      invalid == SchemaErrors(UpdateThis, EntryFields(v, body), t)
  IN IF errs # <<>> THEN Outcome(store, ValidationFailed(MsgsOfChain(errs)))
     ELSE IF v = 2 /\ ExitCheckV2(body) # <<>>
     THEN Outcome(store, ValidationFailed(ExitCheckV2(body)))
     ELSE IF invalid # <<>>
     THEN Outcome(store, ValidationFailed(MsgsOfSchema(invalid)))
     ELSE IF ~OwnEntry(store, u, id)
     THEN Outcome(store, Response(404, "Journal entry not found", <<>>, 0))
     ELSE Outcome([store EXCEPT ![id] = SetEntryFields(v, @, body)],
                  Response(200, "Journal entry updated successfully", <<>>, id))

\* router.delete('/:id')
DeleteEntryOutcome(store, u, id) ==
  IF ~OwnEntry(store, u, id)
  THEN Outcome(store, Response(404, "Journal entry not found", <<>>, 0))
  ELSE Outcome([i \in DOMAIN store \ {id} |-> store[i]],
               Response(200, "Journal entry deleted successfully", <<>>, 0))

\* router.get('/:id')
GetEntryOutcome(store, u, id) ==
  IF ~OwnEntry(store, u, id)
  THEN Outcome(store, Response(404, "Journal entry not found", <<>>, 0))
  ELSE Outcome(store, Response(200, "", <<>>, id))

----------------------------------------------------------------------------
(* Request bodies *)

BaseBody ==
  [stockName |-> " aapl ", entryPrice |-> 150, entryDate |-> Date(2024, 1, 10, 0),
   currentPrice |-> 160, status |-> "open", quantity |-> Undefined,
   isTeamTrade |-> FALSE, exitPrice |-> Undefined, exitDate |-> Undefined,
   month |-> "", year |-> Undefined, user |-> ""]

\* open, with exit fields and a month/year of the client's own
OpenDecBody ==
  [BaseBody EXCEPT !.entryDate = Date(2023, 12, 20, 0), !.currentPrice = 140,
                   !.quantity = 10, !.exitPrice = 160,
                   !.exitDate = Date(2024, 1, 12, 0),
                   !.month = "March", !.year = 1999]

ClosedBody ==
  [BaseBody EXCEPT !.entryDate = Date(2023, 12, 20, 0), !.currentPrice = 140,
                   !.status = "closed", !.quantity = 10, !.exitPrice = 160,
                   !.exitDate = Date(2024, 1, 12, 0)]

ValidBodies == {BaseBody, OpenDecBody, ClosedBody}

InvalidBodies ==
  {[BaseBody EXCEPT !.stockName = ""],
   [BaseBody EXCEPT !.entryPrice = 0],
   [BaseBody EXCEPT !.entryDate = Date(2024, 2, 1, 0)],
   [BaseBody EXCEPT !.entryDate = Date(2024, 1, 15, 9)],
   [ClosedBody EXCEPT !.exitPrice = Undefined],
   [ClosedBody EXCEPT !.exitDate = Undefined],
   [ClosedBody EXCEPT !.entryDate = Date(2024, 1, 10, 0),
                      !.exitDate = Date(2023, 12, 20, 0)],
   [BaseBody EXCEPT !.stockName = "", !.entryPrice = 0, !.status = "closed"]}

JournalBodies == ValidBodies \cup InvalidBodies

EntryIds == 1..MaxEntries

----------------------------------------------------------------------------
(* The requests *)

\* response.headers.get('content-type') of a fetch response
HtmlType == "text/html"

\* fetch rejecting (no response), or a response: its status, its content
\* type, whether response.json() can parse the body, and the body's
\* requiresEmailVerification
NoResponse == [kind |-> "none", status |-> 0, contentType |-> "", parses |-> FALSE,
               requiresEmailVerification |-> FALSE]

\* the browser before the first call: authState as useState initialises it,
\* an empty localStorage
NoSession == [isAuthenticated |-> FALSE, user |-> "", storage |-> {},
              op |-> "none", response |-> NoResponse, had |-> {}, raised |-> ""]

\* no backend quote service called yet
NoCall == [service |-> "none", fn |-> "none", apiKey |-> TRUE, symbols |-> <<>>,
           outcomes |-> <<>>, result |-> [kind |-> "none", value |-> <<>>, message |-> ""],
           status |-> 0]

\* MarketService before its first call
NoEvent == [fn |-> "none", phase |-> "none", symbols |-> <<>>, calledAt |-> 0,
            cachedAt |-> -1, at |-> 0, requested |-> FALSE, served |-> <<>>,
            fetched |-> <<>>]

\* what the model keeps of a request: the route, the authenticated user
\* (req.user._id) and the body
Request(op, u, body) == [op |-> op, user |-> u, body |-> body]

PostEntry(u, body) ==
  /\ nextEntryId <= MaxEntries
  /\ LET o == PostEntryOutcome(version, now, entries, nextEntryId, u, body)
     IN /\ entries' = o.store
        /\ resp' = o.resp
        /\ nextEntryId' = IF o.resp.status = 201 THEN nextEntryId + 1 ELSE nextEntryId
  /\ req' = Request("POST /journal-entries", u, body)
  /\ UNCHANGED <<version, now, focus, nextFocusId>>
  /\ UNCHANGED marketVars

PutEntry(u, id, body) ==
  /\ LET o == PutEntryOutcome(version, now, entries, u, id, body)
     IN entries' = o.store /\ resp' = o.resp
  /\ req' = Request("PUT /journal-entries/:id", u, body)
  /\ UNCHANGED <<version, now, nextEntryId, focus, nextFocusId>>
  /\ UNCHANGED marketVars

DeleteEntry(u, id) ==
  /\ LET o == DeleteEntryOutcome(entries, u, id)
     IN entries' = o.store /\ resp' = o.resp
  /\ req' = Request("DELETE /journal-entries/:id", u, BaseBody)
  /\ UNCHANGED <<version, now, nextEntryId, focus, nextFocusId>>
  /\ UNCHANGED marketVars

GetEntry(u, id) ==
  /\ LET o == GetEntryOutcome(entries, u, id)
     IN entries' = o.store /\ resp' = o.resp
  /\ req' = Request("GET /journal-entries/:id", u, BaseBody)
  /\ UNCHANGED <<version, now, nextEntryId, focus, nextFocusId>>
  /\ UNCHANGED marketVars

\* document.save() on a stored entry, nothing assigned since it was loaded:
\* validation, then the pre('save') hook
SaveEntry(id) ==
  /\ id \in DOMAIN entries
  /\ LET invalid == SchemaErrors(entries[id], entries[id], now)
     IN IF invalid # <<>>
        THEN /\ UNCHANGED entries
             /\ resp' = ValidationFailed(MsgsOfSchema(invalid))
        ELSE /\ entries' = [entries EXCEPT ![id] = PreSave(@)]
             /\ resp' = Response(200, "", <<>>, id)
  /\ req' = Request("entry.save()", entries[id].user, BaseBody)
  /\ UNCHANGED <<version, now, nextEntryId, focus, nextFocusId>>
  /\ UNCHANGED marketVars

\* the server clock moves on
Tick ==
  /\ \E i \in 1..(Len(Clock) - 1) : now = Clock[i] /\ now' = Clock[i + 1]
  /\ UNCHANGED <<version, entries, nextEntryId, focus, nextFocusId, req, resp>>
  /\ UNCHANGED marketVars

NoEntries == [i \in {} |-> BaseBody]

InitServer ==
  /\ version \in {1, 2}
  /\ now = Clock[1]
  /\ entries = NoEntries
  /\ nextEntryId = 1
  /\ focus = NoEntries
  /\ nextFocusId = 1
  /\ req = Request("none", "A", BaseBody)
  /\ resp = Response(0, "", <<>>, 0)
  /\ clock = 0
  /\ cache = NoEntries
  /\ inflight = {}
  /\ event = NoEvent

Init == InitServer /\ quoted = NoCall /\ session = NoSession

\* One owner's journal, with every request body of JournalBodies
NextJournal ==
  \/ \E body \in JournalBodies : PostEntry("A", body)
  \/ \E id \in EntryIds, body \in JournalBodies : PutEntry("A", id, body)
  \/ \E id \in EntryIds : DeleteEntry("A", id)

SpecJournal == Init /\ [][NextJournal]_vars

\* the same with the second revision of the router deployed
InitV2 == Init /\ version = 2

SpecJournalV2 == InitV2 /\ [][NextJournal]_vars

----------------------------------------------------------------------------
(* models/FocusStock.js and routes/focusStocks.js *)

\* tradeDate.validate.validator
TradeDateValidator(self, value) ==
  IF self.tradeTaken = "true" /\ value = Undefined THEN FALSE
  ELSE IF value # Undefined /\ self.dateAdded # Undefined /\ value < self.dateAdded
       THEN FALSE
       ELSE TRUE

\* a JSON value where a boolean is expected: "true", "false", "null", or
\* "absent" for a key the body does not have; the Boolean path of the schema
\* stores true, false and null as they are
Truthy(x) == x = "true"

\* focusStockSchema.pre('save')
FocusPreSave(d) ==
  [d EXCEPT !.potentialReturn = d.targetPrice - d.currentPrice,
            !.potentialReturnPercentage =
               Ratio((d.targetPrice - d.currentPrice) * 100, d.currentPrice)]

\* middleware/validation.js validateFocusStock, which is not among the
\* sources: the field rules of the data model (spec 3), answered with 400
ValidateFocusStock(body) ==
     Opt(StrLen(Trim(body.symbol)) \notin 1..10, [msg |-> "symbol"])
  \o Opt(body.targetPrice = Undefined \/ body.targetPrice <= 0, [msg |-> "targetPrice"])
  \o Opt(body.currentPrice = Undefined \/ body.currentPrice <= 0, [msg |-> "currentPrice"])
  \o Opt(StrLen(Trim(body.reason)) \notin 1..200, [msg |-> "reason"])
  \o Opt(Truthy(body.tradeTaken) /\ body.tradeDate = Undefined, [msg |-> "tradeDate"])
  \o Opt(body.tradeDate # Undefined /\ body.dateAdded # Undefined
           /\ body.tradeDate < body.dateAdded, [msg |-> "tradeDate"])

\* new FocusStock({ ...req.body, user: req.user._id, symbol: ... }): the
\* schema's setters and defaults (dateAdded: Date.now, tradeTaken: false)
NewFocusStock(u, body, t) ==
  [user |-> u,
   symbol |-> Trim(ToUpperCase(body.symbol)),
   targetPrice |-> body.targetPrice,
   currentPrice |-> body.currentPrice,
   reason |-> Trim(body.reason),
   dateAdded |-> IF body.dateAdded = Undefined THEN t ELSE body.dateAdded,
   tradeTaken |-> IF body.tradeTaken = "absent" THEN "false" ELSE body.tradeTaken,
   tradeDate |-> body.tradeDate,
   potentialReturn |-> body.potentialReturn,
   potentialReturnPercentage |-> <<0, 1>>]

\* the filter { _id: req.params.id, user: req.user._id }
OwnFocus(store, u, id) == id \in DOMAIN store /\ store[id].user = u

\* router.post('/'): every error of the try block is answered 500
PostFocusOutcome(t, store, nid, u, body) ==
  LET errs == ValidateFocusStock(body)
      doc == NewFocusStock(u, body, t)
  IN IF errs # <<>> THEN Outcome(store, ValidationFailed(errs))
     ELSE IF doc.tradeDate # Undefined /\ ~TradeDateValidator(doc, doc.tradeDate)
     THEN Outcome(store, Response(500, "Error creating focus stock", <<>>, 0))
     ELSE Outcome(store @@ (nid :> FocusPreSave(doc)),
                  Response(201, "Focus stock created successfully", <<>>, nid))

\* findOneAndUpdate's $set of { ...req.body, symbol } on the matched
\* document: the keys the body has; no save hook runs
SetFocusFields(d, body) ==
  [d EXCEPT !.user = IF body.user = "" THEN @ ELSE body.user,
            !.symbol = Trim(ToUpperCase(body.symbol)),
            !.targetPrice = body.targetPrice,
            !.currentPrice = body.currentPrice,
            !.reason = Trim(body.reason),
            !.dateAdded = IF body.dateAdded = Undefined THEN @ ELSE body.dateAdded,
            !.tradeTaken = IF body.tradeTaken = "absent" THEN @ ELSE body.tradeTaken,
            !.tradeDate = IF body.tradeDate = Undefined THEN @ ELSE body.tradeDate,
            !.potentialReturn =
               IF body.potentialReturn = Undefined THEN @ ELSE body.potentialReturn]

\* router.put('/:id')
PutFocusOutcome(store, u, id, body) ==
  LET errs == ValidateFocusStock(body)
  IN IF errs # <<>> THEN Outcome(store, ValidationFailed(errs))
     ELSE IF body.tradeDate # Undefined /\ ~TradeDateValidator(UpdateThis, body.tradeDate)
     THEN Outcome(store, Response(500, "Error updating focus stock", <<>>, 0))
     ELSE IF ~OwnFocus(store, u, id)
     THEN Outcome(store, Response(404, "Focus stock not found", <<>>, 0))
     ELSE Outcome([store EXCEPT ![id] = SetFocusFields(@, body)],
                  Response(200, "Focus stock updated successfully", <<>>, id))

\* the update of router.patch('/:id/mark-taken'):
\*   tradeTaken: tradeTaken !== undefined ? tradeTaken : true,
\*   tradeDate: tradeTaken ? (tradeDate || new Date()) : undefined
\* where an undefined value is written as null
MarkTakenUpdate(d, body, t) ==
  [d EXCEPT !.tradeTaken = IF body.tradeTaken # "absent" THEN body.tradeTaken
                           ELSE "true",
            !.tradeDate = IF Truthy(body.tradeTaken)
                          THEN (IF body.tradeDate # Undefined THEN body.tradeDate ELSE t)
                          ELSE Undefined]

\* router.patch('/:id/mark-taken')
MarkTakenOutcome(t, store, u, id, body) ==
  LET written == MarkTakenUpdate([tradeTaken |-> "false", tradeDate |-> Undefined], body, t)
  IN IF written.tradeDate # Undefined /\ ~TradeDateValidator(UpdateThis, written.tradeDate)
     THEN Outcome(store, Response(500, "Error updating focus stock status", <<>>, 0))
     ELSE IF ~OwnFocus(store, u, id)
     THEN Outcome(store, Response(404, "Focus stock not found", <<>>, 0))
     ELSE Outcome([store EXCEPT ![id] = MarkTakenUpdate(@, body, t)],
                  Response(200,
                           IF Truthy(body.tradeTaken) THEN "Focus stock marked as taken"
                           ELSE "Focus stock marked as pending",
                           <<>>, id))

\* router.delete('/:id')
DeleteFocusOutcome(store, u, id) ==
  IF ~OwnFocus(store, u, id)
  THEN Outcome(store, Response(404, "Focus stock not found", <<>>, 0))
  ELSE Outcome([i \in DOMAIN store \ {id} |-> store[i]],
               Response(200, "Focus stock deleted successfully", <<>>, 0))

\* router.get('/:id')
GetFocusOutcome(store, u, id) ==
  IF ~OwnFocus(store, u, id)
  THEN Outcome(store, Response(404, "Focus stock not found", <<>>, 0))
  ELSE Outcome(store, Response(200, "", <<>>, id))

BaseFocusBody ==
  [symbol |-> "tcs", targetPrice |-> 250, currentPrice |-> 200, reason |-> "breakout",
   dateAdded |-> Undefined, tradeTaken |-> "absent", tradeDate |-> Undefined,
   user |-> "", potentialReturn |-> Undefined]

TakenFocusBody ==
  [BaseFocusBody EXCEPT !.dateAdded = Date(2024, 1, 10, 0), !.tradeTaken = "true",
                        !.tradeDate = Date(2024, 1, 12, 0)]

FocusBodies ==
  {BaseFocusBody, TakenFocusBody,
   [BaseFocusBody EXCEPT !.targetPrice = 0],
   [TakenFocusBody EXCEPT !.tradeDate = Undefined]}

\* the bodies of PATCH mark-taken: { tradeTaken, tradeDate }
MarkBodies ==
  {[BaseFocusBody EXCEPT !.tradeTaken = tt, !.tradeDate = td] :
     tt \in {"absent", "true", "false"},
     td \in {Undefined, Date(2024, 1, 16, 0)}}

FocusIds == 1..MaxFocus

PostFocus(u, body) ==
  /\ nextFocusId <= MaxFocus
  /\ LET o == PostFocusOutcome(now, focus, nextFocusId, u, body)
     IN /\ focus' = o.store
        /\ resp' = o.resp
        /\ nextFocusId' = IF o.resp.status = 201 THEN nextFocusId + 1 ELSE nextFocusId
  /\ req' = Request("POST /focus-stocks", u, body)
  /\ UNCHANGED <<version, now, entries, nextEntryId>>
  /\ UNCHANGED marketVars

PutFocus(u, id, body) ==
  /\ LET o == PutFocusOutcome(focus, u, id, body)
     IN focus' = o.store /\ resp' = o.resp
  /\ req' = Request("PUT /focus-stocks/:id", u, body)
  /\ UNCHANGED <<version, now, entries, nextEntryId, nextFocusId>>
  /\ UNCHANGED marketVars

MarkTaken(u, id, body) ==
  /\ LET o == MarkTakenOutcome(now, focus, u, id, body)
     IN focus' = o.store /\ resp' = o.resp
  /\ req' = Request("PATCH /focus-stocks/:id/mark-taken", u, body)
  /\ UNCHANGED <<version, now, entries, nextEntryId, nextFocusId>>
  /\ UNCHANGED marketVars

DeleteFocus(u, id) ==
  /\ LET o == DeleteFocusOutcome(focus, u, id)
     IN focus' = o.store /\ resp' = o.resp
  /\ req' = Request("DELETE /focus-stocks/:id", u, BaseFocusBody)
  /\ UNCHANGED <<version, now, entries, nextEntryId, nextFocusId>>
  /\ UNCHANGED marketVars

GetFocus(u, id) ==
  /\ LET o == GetFocusOutcome(focus, u, id)
     IN focus' = o.store /\ resp' = o.resp
  /\ req' = Request("GET /focus-stocks/:id", u, BaseFocusBody)
  /\ UNCHANGED <<version, now, entries, nextEntryId, nextFocusId>>
  /\ UNCHANGED marketVars

\* One owner's watchlist, while the clock runs
NextFocus ==
  \/ \E body \in FocusBodies : PostFocus("A", body)
  \/ \E id \in FocusIds, body \in FocusBodies : PutFocus("A", id, body)
  \/ \E id \in FocusIds, body \in MarkBodies : MarkTaken("A", id, body)
  \/ \E id \in FocusIds : DeleteFocus("A", id)
  \/ Tick

SpecFocus == InitV2 /\ [][NextFocus]_vars

----------------------------------------------------------------------------
(* models/FocusStock.js: the aggregation static *)

\* { $match: { user: mongoose.Types.ObjectId(userId) } }
MatchFocusUser(store, u) == {id \in DOMAIN store : store[id].user = u}

RECURSIVE SumReturnPercentage(_, _)
SumReturnPercentage(store, ids) ==
  IF ids = {} THEN <<0, 1>>
  ELSE LET id == CHOOSE i \in ids : TRUE
       IN RatioAdd(store[id].potentialReturnPercentage,
                   SumReturnPercentage(store, ids \ {id}))

\* null where a number is expected: $avg over no numeric value
NullRatio == <<0, 0>>

\* an average that is 0 when there is nothing to average
AveragePotentialReturnOrZero(store, ids) ==
  LET pending == {i \in ids : store[i].tradeTaken = "false"}
      sum == SumReturnPercentage(store, pending)
  IN IF pending = {} THEN <<0, 1>>
     ELSE Ratio(sum[1], sum[2] * Cardinality(pending))

\* { $avg: { $cond: [{ $eq: ['$tradeTaken', false] },
\*                    '$potentialReturnPercentage', null] } }:
\* $avg skips the nulls and is null when nothing is left
AveragePotentialReturn(store, ids) ==
  LET pending == {i \in ids : store[i].tradeTaken = "false"}
      sum == SumReturnPercentage(store, pending)
  IN IF pending = {} THEN NullRatio
     ELSE Ratio(sum[1], sum[2] * Cardinality(pending))

\* focusStockSchema.statics.getUserFocusStats
getUserFocusStats(store, u) ==
  LET ids == MatchFocusUser(store, u)
      result ==
        IF ids = {}
        THEN [totalFocusStocks |-> 0, pendingStocks |-> 0, takenStocks |-> 0,
              averagePotentialReturn |-> <<0, 1>>]
        ELSE [totalFocusStocks |-> Cardinality(ids),
              pendingStocks |-> Cardinality({i \in ids : store[i].tradeTaken = "false"}),
              takenStocks |-> Cardinality({i \in ids : store[i].tradeTaken = "true"}),
              averagePotentialReturn |-> AveragePotentialReturn(store, ids)]
  IN [totalFocusStocks |-> result.totalFocusStocks,
      pendingStocks |-> result.pendingStocks,
      takenStocks |-> result.takenStocks,
      averagePotentialReturn |-> result.averagePotentialReturn,
      conversionRate |-> IF result.totalFocusStocks > 0
                         THEN Ratio(result.takenStocks * 100, result.totalFocusStocks)
                         ELSE <<0, 1>>]

\* The focus stocks of one owner, created pending or taken and marked with
\* every value PATCH mark-taken accepts for tradeTaken
StatMarkBodies ==
  {[BaseFocusBody EXCEPT !.tradeTaken = tt] : tt \in {"absent", "false", "null"}}

NextFocusStats ==
  \/ \E body \in {BaseFocusBody, TakenFocusBody,
                  [BaseFocusBody EXCEPT !.currentPrice = 220]} : PostFocus("A", body)
  \/ \E id \in FocusIds, body \in StatMarkBodies : MarkTaken("A", id, body)
  \/ \E id \in FocusIds : DeleteFocus("A", id)

SpecFocusStats == InitV2 /\ [][NextFocusStats]_vars

----------------------------------------------------------------------------
(* models/JournalEntry.js: the aggregation statics *)

\* { $match: { user: mongoose.Types.ObjectId(userId) } } with every user matched
MatchAnyUser(store, u) == DOMAIN store

\* { $match: { user: mongoose.Types.ObjectId(userId) } }
MatchUser(store, u) == {id \in DOMAIN store : store[id].user = u}

RECURSIVE SumPnl(_, _)
SumPnl(store, ids) ==
  IF ids = {} THEN 0
  ELSE LET id == CHOOSE i \in ids : TRUE
       IN store[id].pnl + SumPnl(store, ids \ {id})

RECURSIVE SumPnlPercentage(_, _)
SumPnlPercentage(store, ids) ==
  IF ids = {} THEN <<0, 1>>
  ELSE LET id == CHOOSE i \in ids : TRUE
       IN RatioAdd(store[id].pnlPercentage, SumPnlPercentage(store, ids \ {id}))

\* { $avg: '$pnlPercentage' } over a non-empty group
AvgPnlPercentage(store, ids) ==
  LET sum == SumPnlPercentage(store, ids)
  IN Ratio(sum[1], sum[2] * Cardinality(ids))

\* getUserStats with $sum in the place of $avg
getUserStatsSummingPercentage(store, u) ==
  LET ids == MatchUser(store, u)
  IN IF ids = {}
     THEN [totalTrades |-> 0, openTrades |-> 0, closedTrades |-> 0, totalPnL |-> 0,
           avgPnLPercentage |-> <<0, 1>>, teamTrades |-> 0]
     ELSE [_id |-> Undefined,
           totalTrades |-> Cardinality(ids),
           openTrades |-> Cardinality({i \in ids : store[i].status = "open"}),
           closedTrades |-> Cardinality({i \in ids : store[i].status = "closed"}),
           totalPnL |-> SumPnl(store, ids),
           avgPnLPercentage |-> SumPnlPercentage(store, ids),
           teamTrades |-> Cardinality({i \in ids : store[i].isTeamTrade})]

\* journalEntrySchema.statics.getUserStats: stats[0] (the $group document,
\* with its _id: null) or the zero-filled record
getUserStats(store, u) ==
  LET ids == MatchUser(store, u)
  IN IF ids = {}
     THEN [totalTrades |-> 0, openTrades |-> 0, closedTrades |-> 0, totalPnL |-> 0,
           avgPnLPercentage |-> <<0, 1>>, teamTrades |-> 0]
     ELSE [_id |-> Undefined,
           totalTrades |-> Cardinality(ids),
           openTrades |-> Cardinality({i \in ids : store[i].status = "open"}),
           closedTrades |-> Cardinality({i \in ids : store[i].status = "closed"}),
           totalPnL |-> SumPnl(store, ids),
           avgPnLPercentage |-> AvgPnlPercentage(store, ids),
           teamTrades |-> Cardinality({i \in ids : store[i].isTeamTrade})]

\* the place of a month name in the order { $sort: { _id: 1 } } gives strings
SortRank(name) == CHOOSE k \in 1..12 :
  <<"April", "August", "December", "February", "January", "July", "June",
    "March", "May", "November", "October", "September">>[k] = name

\* the months under { $sort: { _id: -1 } }
RECURSIVE SortedMonthsDescending(_)
SortedMonthsDescending(names) ==
  IF names = {} THEN <<>>
  ELSE LET first == CHOOSE n \in names : \A m \in names : SortRank(n) >= SortRank(m)
       IN <<first>> \o SortedMonthsDescending(names \ {first})

RECURSIVE SortedMonths(_)
SortedMonths(names) ==
  IF names = {} THEN <<>>
  ELSE LET first == CHOOSE n \in names : \A m \in names : SortRank(n) <= SortRank(m)
       IN <<first>> \o SortedMonths(names \ {first})

\* journalEntrySchema.statics.getMonthlyPerformance; year is Undefined when
\* the caller passes none or NaN
getMonthlyPerformance(store, u, year, t) ==
  LET y == IF year = Undefined THEN GetFullYear(t) ELSE year
      ids == {id \in MatchUser(store, u) : store[id].year = y}
      months == SortedMonths({store[id].month : id \in ids})
      Group(m) == {id \in ids : store[id].month = m}
  IN [k \in 1..Len(months) |->
        [_id |-> months[k],
         totalPnL |-> SumPnl(store, Group(months[k])),
         totalTrades |-> Cardinality(Group(months[k])),
         avgPnLPercentage |-> AvgPnlPercentage(store, Group(months[k]))]]

\* The journals of two owners, with the valid request bodies
NextOwners ==
  \/ \E u \in Users, body \in ValidBodies : PostEntry(u, body)
  \/ \E u \in Users, id \in EntryIds, body \in ValidBodies : PutEntry(u, id, body)
  \/ \E u \in Users, id \in EntryIds : DeleteEntry(u, id)

SpecOwners == Init /\ [][NextOwners]_vars

\* The journals of two owners with open, closed and team trades of two
\* months and two years
StatBodies ==
  {BaseBody, ClosedBody,
   [OpenDecBody EXCEPT !.isTeamTrade = TRUE, !.entryDate = Date(2023, 11, 20, 0)]}

NextStats ==
  \/ \E u \in Users, body \in StatBodies : PostEntry(u, body)
  \/ \E u \in Users, id \in EntryIds : PutEntry(u, id, BaseBody)
  \/ \E u \in Users, id \in EntryIds : DeleteEntry(u, id)
  \/ Tick

SpecStats == Init /\ [][NextStats]_vars

\* Open entries created with exit fields in the payload: an exit price
\* (valid or 0) and an exit date (after or before the entry date)
OpenExitBodies ==
  {[BaseBody EXCEPT !.exitPrice = xp, !.exitDate = xd, !.quantity = q] :
     xp \in {Undefined, 170, 0},
     xd \in {Undefined, Date(2024, 1, 12, 0), Date(2023, 12, 1, 0)},
     q \in {Undefined, 10}}

NextCreates ==
  \/ \E body \in OpenExitBodies \cup {ClosedBody} : PostEntry("A", body)
  \/ \E id \in EntryIds : DeleteEntry("A", id)

SpecCreates == Init /\ [][NextCreates]_vars

\* Entries created and updated with entry prices around zero
PriceBodies ==
  {[BaseBody EXCEPT !.entryPrice = p] : p \in {Undefined, -5, 0, 1, 150}}
    \cup {[ClosedBody EXCEPT !.entryPrice = p] : p \in {0, 150}}

NextPrices ==
  \/ \E body \in PriceBodies : PostEntry("A", body)
  \/ \E id \in EntryIds, body \in PriceBodies : PutEntry("A", id, body)

SpecPrices == Init /\ [][NextPrices]_vars

\* Entries created, updated and saved again
SaveBodies == {BaseBody, ClosedBody, [BaseBody EXCEPT !.quantity = 10]}

NextSaves ==
  \/ \E body \in SaveBodies : PostEntry("A", body)
  \/ \E id \in EntryIds, body \in {BaseBody, ClosedBody} : PutEntry("A", id, body)
  \/ \E id \in EntryIds : SaveEntry(id)

SpecSaves == Init /\ [][NextSaves]_vars

\* Two users reaching for each other's records in both collections
NextAccess ==
  \/ \E u \in Users : PostEntry(u, BaseBody)
  \/ \E u \in Users, id \in EntryIds : PutEntry(u, id, BaseBody)
  \/ \E u \in Users, id \in EntryIds : DeleteEntry(u, id)
  \/ \E u \in Users, id \in EntryIds : GetEntry(u, id)
  \/ \E u \in Users : PostFocus(u, TakenFocusBody)
  \/ \E u \in Users, id \in FocusIds : PutFocus(u, id, TakenFocusBody)
  \/ \E u \in Users, id \in FocusIds : MarkTaken(u, id, TakenFocusBody)
  \/ \E u \in Users, id \in FocusIds : DeleteFocus(u, id)
  \/ \E u \in Users, id \in FocusIds : GetFocus(u, id)

SpecAccess == Init /\ [][NextAccess]_vars

\* Focus stocks of one owner whose prices change and whose bodies carry a
\* potentialReturn of their own
ReturnBodies ==
  {BaseFocusBody,
   [BaseFocusBody EXCEPT !.currentPrice = 220],
   [BaseFocusBody EXCEPT !.potentialReturn = 999]}

NextReturns ==
  \/ \E body \in ReturnBodies : PostFocus("A", body)
  \/ \E id \in FocusIds, body \in ReturnBodies : PutFocus("A", id, body)
  \/ \E id \in FocusIds : DeleteFocus("A", id)

SpecReturns == InitV2 /\ [][NextReturns]_vars

\* Two users whose request bodies may carry a `user` field naming B
UserBodies == {BaseBody, [BaseBody EXCEPT !.user = "B"]}
UserFocusBodies == {BaseFocusBody, [BaseFocusBody EXCEPT !.user = "B"]}

NextOwnership ==
  \/ \E u \in Users, body \in UserBodies : PostEntry(u, body)
  \/ \E u \in Users, id \in EntryIds, body \in UserBodies : PutEntry(u, id, body)
  \/ \E u \in Users, body \in UserFocusBodies : PostFocus(u, body)
  \/ \E u \in Users, id \in FocusIds, body \in UserFocusBodies : PutFocus(u, id, body)
  \/ \E u \in Users, id \in FocusIds, body \in UserFocusBodies : MarkTaken(u, id, body)

SpecOwnership == InitV2 /\ [][NextOwnership]_vars

----------------------------------------------------------------------------
(* src/services/marketService.ts: the frontend MarketService *)

\* private readonly CACHE_DURATION = 60000
CACHE_DURATION == 60000

\* the latest instant of the millisecond clock
MaxClock == 120002

\* the most calls waiting for a response at a time
MaxInflight == 1

\* the symbols the pages ask quotes for, and the lists of them
QuoteSymbols == {"tcs", "TCS", "aapl"}
SymbolLists == {<<"tcs">>, <<"tcs", "aapl">>, <<"aapl", "TCS">>}

\* a quote as the backend sends it
QuoteOf(key, t) == [symbol |-> key, currentPrice |-> 100, timestamp |-> t]

\* { symbol, error, currentPrice: null } of the backend's getMultipleQuotes
NoQuoteOf(key) == [symbol |-> key, currentPrice |-> Undefined, timestamp |-> Undefined]

\* the test with the window's end counted in
IsFreshInclusive(store, key, t) ==
  key \in DOMAIN store /\ t - store[key].timestamp <= CACHE_DURATION

\* cached && Date.now() - cached.timestamp < this.CACHE_DURATION
IsFresh(store, key, t) ==
  key \in DOMAIN store /\ t - store[key].timestamp < CACHE_DURATION

\* a cache that keeps the entry it has: the first response stored wins
CacheSetIfAbsent(store, key, data, t) ==
  [k \in DOMAIN store \cup {key} |->
     IF k \in DOMAIN store THEN store[k] ELSE [data |-> data, timestamp |-> t]]

\* a cache that holds the last response only
CacheSetAlone(store, key, data, t) ==
  [k \in {key} |-> [data |-> data, timestamp |-> t]]

\* this.cache.set(key, { data, timestamp: Date.now() })
CacheSet(store, key, data, t) ==
  [k \in DOMAIN store \cup {key} |->
     IF k = key THEN [data |-> data, timestamp |-> t] ELSE store[k]]

RECURSIVE SelectSeq2(_, _, _)
\* the elements of a sequence that pass (keep = TRUE) or fail the freshness test
SelectSeq2(list, keep, t) ==
  IF list = <<>> THEN <<>>
  ELSE LET rest == SelectSeq2(Tail(list), keep, t)
       IN IF IsFresh(cache, ToUpperCase(Head(list)), t) = keep
          THEN <<Head(list)>> \o rest ELSE rest

\* the cache entries getMultipleQuotes pushes to results before its request
ServedFor(list, t) ==
  LET hits == SelectSeq2(list, TRUE, t)
  IN [k \in 1..Len(hits) |-> cache[ToUpperCase(hits[k])]]

\* cachedAt: when the cache entry of the first symbol was stored, Undefined
\* when the cache has none
Called(fn, symbols, requested, served) ==
  [fn |-> fn, phase |-> "called", symbols |-> symbols, calledAt |-> clock,
   cachedAt |-> IF ToUpperCase(symbols[1]) \in DOMAIN cache
                THEN cache[ToUpperCase(symbols[1])].timestamp ELSE Undefined,
   at |-> clock, requested |-> requested, served |-> served, fetched |-> <<>>]

Returned(call, served, fetched) ==
  [fn |-> call.fn, phase |-> "returned", symbols |-> call.symbols,
   calledAt |-> call.calledAt, cachedAt |-> Undefined, at |-> clock, requested |-> TRUE,
   served |-> served, fetched |-> fetched]

\* the pending calls are told apart by a slot number: the first one free
FreeSlot(limit) ==
  CHOOSE n \in 1..limit :
    /\ \A call \in inflight : call.slot # n
    /\ \A m \in 1..(n - 1) : \E call \in inflight : call.slot = m

\* getQuote(symbol) up to its await: the cached quote, or the request; at
\* most `limit` calls wait for a response at a time
GetQuoteCallWithin(symbol, limit) ==
  /\ IF IsFresh(cache, ToUpperCase(symbol), clock)
     THEN /\ event' = Called("getQuote", <<symbol>>, FALSE,
                             <<cache[ToUpperCase(symbol)]>>)
          /\ UNCHANGED inflight
     ELSE /\ Cardinality(inflight) < limit
          /\ event' = Called("getQuote", <<symbol>>, TRUE, <<>>)
          /\ inflight' = inflight \cup
               {[fn |-> "getQuote", symbols |-> <<symbol>>, uncached |-> <<symbol>>,
                 served |-> <<>>, calledAt |-> clock, slot |-> FreeSlot(limit)]}
  /\ UNCHANGED <<clock, cache>>
  /\ UNCHANGED <<version, now, entries, nextEntryId, focus, nextFocusId, req, resp, quoted, session>>

GetQuoteCall(symbol) == GetQuoteCallWithin(symbol, MaxInflight)

\* getQuote after its await: response.success && response.data, or a
\* response without data, or makeRequest throwing (caught: return null)
GetQuoteResponse(call, outcome) ==
  /\ call \in inflight
  /\ call.fn = "getQuote"
  /\ inflight' = inflight \ {call}
  /\ IF outcome = "data"
     THEN LET key == ToUpperCase(call.symbols[1])
              data == QuoteOf(key, clock)
          IN /\ cache' = CacheSet(cache, key, data, clock)
             /\ event' = Returned(call, <<>>, <<data>>)
     ELSE /\ UNCHANGED cache
          /\ event' = Returned(call, <<>>, <<>>)
  /\ UNCHANGED clock
  /\ UNCHANGED <<version, now, entries, nextEntryId, focus, nextFocusId, req, resp, quoted, session>>

\* getMultipleQuotes(symbols) up to its await
GetMultipleQuotesCall(symbols) ==
  /\ LET served == ServedFor(symbols, clock)
         uncached == SelectSeq2(symbols, FALSE, clock)
     IN IF uncached = <<>>
        THEN /\ event' = Called("getMultipleQuotes", symbols, FALSE, served)
             /\ UNCHANGED inflight
        ELSE /\ Cardinality(inflight) < MaxInflight
             /\ event' = Called("getMultipleQuotes", symbols, TRUE, served)
             /\ inflight' = inflight \cup
                  {[fn |-> "getMultipleQuotes", symbols |-> symbols,
                    uncached |-> uncached, served |-> served, calledAt |-> clock,
                    slot |-> FreeSlot(MaxInflight)]}
  /\ UNCHANGED <<clock, cache>>
  /\ UNCHANGED <<version, now, entries, nextEntryId, focus, nextFocusId, req, resp, quoted, session>>

RECURSIVE CacheAll(_, _, _)
\* response.data.forEach(quote => this.cache.set(quote.symbol, ...))
CacheAll(store, quotes, t) ==
  IF quotes = <<>> THEN store
  ELSE CacheAll(CacheSet(store, Head(quotes).symbol, Head(quotes), t), Tail(quotes), t)

\* getMultipleQuotes after its await: the quotes with a price are cached and
\* appended to results; a response without data returns the cached part;
\* makeRequest throwing is caught and [] returned.  failed: the positions of
\* the symbols the backend has no quote for.
GetMultipleQuotesResponse(call, outcome, failed) ==
  /\ call \in inflight
  /\ call.fn = "getMultipleQuotes"
  /\ inflight' = inflight \ {call}
  /\ failed \subseteq 1..Len(call.uncached)
  /\ outcome = "data" \/ failed = {}
  /\ LET data == [k \in 1..Len(call.uncached) |->
                    IF k \in failed THEN NoQuoteOf(ToUpperCase(call.uncached[k]))
                    ELSE QuoteOf(ToUpperCase(call.uncached[k]), clock)]
         priced == SelectSeq(data, LAMBDA q : q.currentPrice # Undefined)
     IN CASE outcome = "data" ->
               /\ cache' = CacheAll(cache, priced, clock)
               /\ event' = Returned(call, call.served, priced)
          [] outcome = "nodata" ->
               /\ UNCHANGED cache
               /\ event' = Returned(call, call.served, <<>>)
          [] OTHER ->
               /\ UNCHANGED cache
               /\ event' = Returned(call, <<>>, <<>>)
  /\ UNCHANGED clock
  /\ UNCHANGED <<version, now, entries, nextEntryId, focus, nextFocusId, req, resp, quoted, session>>

\* time passing
Advance(d) ==
  /\ clock + d <= MaxClock
  /\ clock' = clock + d
  /\ UNCHANGED <<cache, inflight, event>>
  /\ UNCHANGED <<version, now, entries, nextEntryId, focus, nextFocusId, req, resp, quoted, session>>

Outcomes == {"data", "nodata", "throws"}

NextMarket ==
  \/ \E symbol \in QuoteSymbols : GetQuoteCall(symbol)
  \/ \E call \in inflight, outcome \in Outcomes : GetQuoteResponse(call, outcome)
  \/ \E symbols \in SymbolLists : GetMultipleQuotesCall(symbols)
  \/ \E call \in inflight, outcome \in Outcomes, failed \in SUBSET (1..2) :
       GetMultipleQuotesResponse(call, outcome, failed)
  \/ \E d \in {CACHE_DURATION - 1, CACHE_DURATION, CACHE_DURATION + 1} : Advance(d)

SpecMarket == InitV2 /\ [][NextMarket]_vars

\* Concurrent getQuote calls: up to MaxRacers of them wait for their
\* responses at a time, which arrive in any order while the clock runs
MaxRacers == 2

MaxRaceClock == 1

Respond(slot) ==
  \E call \in inflight, outcome \in Outcomes :
    call.slot = slot /\ GetQuoteResponse(call, outcome)

NextRace ==
  \/ \E symbol \in QuoteSymbols : GetQuoteCallWithin(symbol, MaxRacers)
  \/ \E slot \in 1..MaxRacers : Respond(slot)
  \/ clock < MaxRaceClock /\ Advance(1)

\* every pending request is answered in the end: a response or an error
SpecRace ==
  InitV2 /\ [][NextRace]_vars /\ \A slot \in 1..MaxRacers : WF_vars(Respond(slot))

\* getQuote calls that overlap, with the time between them up to the age at
\* which a cache entry expires
NextFrame ==
  \/ \E symbol \in QuoteSymbols : GetQuoteCallWithin(symbol, MaxRacers)
  \/ \E call \in inflight, outcome \in Outcomes : GetQuoteResponse(call, outcome)
  \/ \E d \in {CACHE_DURATION - 1, CACHE_DURATION} : Advance(d)

SpecFrame == InitV2 /\ [][NextFrame]_vars

----------------------------------------------------------------------------
(* backend/services: YahooFinanceService and FinnhubService, and the        *)
(* routes of routes/market.js that call them.  A call either returns a     *)
(* value (a sequence: <<>> is null, <<q>> a quote, or the list of a batch) *)
(* or throws.                                                               *)

MaxSymbols == 2

\* a JSON number among req.body.symbols: a value with no toUpperCase
NotAString == "<number>"

IsString(symbol) == symbol # NotAString

BackendSymbols == {"aapl", "TCS"}

BatchElements == BackendSymbols \cup {NotAString}

\* what the provider (yahooFinance.quote, axios.get) does for one symbol
ProviderOutcomes == {"price", "noprice", "error", "timeout"}

ProviderMessage(service, outcome) ==
  CASE outcome = "timeout" -> "timeout of 5000ms exceeded"
    [] outcome = "error" -> "Request failed"
    [] OTHER -> IF service = "yahoo" THEN "No price data available"
                ELSE "Invalid symbol or no data available"

Returns(value) == [kind |-> "returns", value |-> value, message |-> ""]

Throws(message) == [kind |-> "throws", value |-> <<>>, message |-> message]

TypeErrorMessage == "symbol.toUpperCase is not a function"

IndianStocks ==
  {"RELIANCE", "TCS", "INFY", "HDFCBANK", "ICICIBANK", "HINDUNILVR", "ITC", "SBIN",
   "BHARTIARTL", "KOTAKBANK", "LT", "ASIANPAINT", "AXISBANK", "MARUTI", "TITAN",
   "NESTLEIND", "ULTRACEMCO", "BAJFINANCE", "HCLTECH", "WIPRO", "SUNPHARMA",
   "NTPC", "POWERGRID", "ONGC", "TATAMOTORS", "TATASTEEL", "JSWSTEEL", "HINDALCO",
   "ADANIENT", "ADANIPORTS", "COALINDIA", "DRREDDY", "EICHERMOT", "GRASIM",
   "HEROMOTOCO", "INDUSINDBK", "BAJAJFINSV", "TECHM", "CIPLA", "DIVISLAB"}

\* the upper-case form of one character
UpperChar(c) ==
  CASE c = "a" -> "A" [] c = "b" -> "B" [] c = "c" -> "C" [] c = "d" -> "D"
    [] c = "e" -> "E" [] c = "f" -> "F" [] c = "g" -> "G" [] c = "h" -> "H"
    [] c = "i" -> "I" [] c = "j" -> "J" [] c = "k" -> "K" [] c = "l" -> "L"
    [] c = "m" -> "M" [] c = "n" -> "N" [] c = "o" -> "O" [] c = "p" -> "P"
    [] c = "q" -> "Q" [] c = "r" -> "R" [] c = "s" -> "S" [] c = "t" -> "T"
    [] c = "u" -> "U" [] c = "v" -> "V" [] c = "w" -> "W" [] c = "x" -> "X"
    [] c = "y" -> "Y" [] c = "z" -> "Z" [] OTHER -> c

RECURSIVE toUpperCase(_)
\* String.prototype.toUpperCase, character by character
toUpperCase(s) ==
  IF Len(s) = 0 THEN s ELSE UpperChar(Head(s)) \o toUpperCase(Tail(s))

RECURSIVE trimStart(_)
trimStart(s) ==
  IF Len(s) > 0 /\ Head(s) = " " THEN trimStart(Tail(s)) ELSE s

RECURSIVE trimEnd(_)
trimEnd(s) ==
  IF Len(s) > 0 /\ SubSeq(s, Len(s), Len(s)) = " "
  THEN trimEnd(SubSeq(s, 1, Len(s) - 1)) ELSE s

\* String.prototype.trim, character by character
trim(s) == trimEnd(trimStart(s))

\* String.prototype.includes
includes(s, part) ==
  \E i \in 1..(Len(s) - Len(part) + 1) : SubSeq(s, i, i + Len(part) - 1) = part

\* a rule by prefix: every symbol that starts with a listed ticker gets '.NS'
formatSymbolByPrefix(symbol) ==
  LET cleanSymbol == trim(toUpperCase(symbol))
  IN IF \E ticker \in IndianStocks :
          Len(ticker) <= Len(cleanSymbol) /\ SubSeq(cleanSymbol, 1, Len(ticker)) = ticker
     THEN cleanSymbol \o ".NS" ELSE cleanSymbol

\* YahooFinanceService.formatSymbol
formatSymbol(symbol) ==
  LET cleanSymbol == trim(toUpperCase(symbol))
  IN IF cleanSymbol \in IndianStocks /\ ~includes(cleanSymbol, ".NS")
     THEN cleanSymbol \o ".NS"
     ELSE IF includes(cleanSymbol, ".") THEN cleanSymbol
     ELSE cleanSymbol

BackendQuote(service, symbol) ==
  [symbol |-> ToUpperCase(symbol),
   originalSymbol |-> IF service = "yahoo" THEN formatSymbol(symbol) ELSE "",
   currentPrice |-> 100, error |-> ""]

\* { symbol: symbol.toUpperCase(), error, currentPrice: null }
Fallback(symbol, message) ==
  [symbol |-> ToUpperCase(symbol), originalSymbol |-> "",
   currentPrice |-> Undefined, error |-> message]

\* YahooFinanceService.getQuote: the whole body is in a try whose catch
\* returns null
YahooGetQuote(symbol, outcome) ==
  IF IsString(symbol) /\ outcome = "price"
  THEN Returns(<<BackendQuote("yahoo", symbol)>>)
  ELSE Returns(<<>>)

\* FinnhubService.getQuote: the catch throws a new Error
FinnhubGetQuote(apiKey, symbol, outcome) ==
  LET cause == IF ~apiKey THEN "Finnhub API key not configured"
               ELSE IF ~IsString(symbol) THEN TypeErrorMessage
               ELSE ProviderMessage("finnhub", outcome)
  IN IF apiKey /\ IsString(symbol) /\ outcome = "price"
     THEN Returns(<<BackendQuote("finnhub", symbol)>>)
     ELSE Throws("Failed to fetch quote for " \o symbol \o ": " \o cause)

getQuote(service, apiKey, symbol, outcome) ==
  IF service = "yahoo" THEN YahooGetQuote(symbol, outcome)
  ELSE FinnhubGetQuote(apiKey, symbol, outcome)

\* one promise of symbols.map(...): the quote, the fallback object, or a
\* rejection when building the fallback object throws
YahooQuotePromise(symbol, outcome) ==
  LET quote == YahooGetQuote(symbol, outcome)
  IN IF quote.value # <<>> THEN Returns(quote.value)
     ELSE IF IsString(symbol) THEN Returns(<<Fallback(symbol, "No data available")>>)
     ELSE Throws(TypeErrorMessage)

FinnhubQuotePromise(apiKey, symbol, outcome) ==
  LET quote == FinnhubGetQuote(apiKey, symbol, outcome)
  IN IF quote.kind = "returns" THEN quote
     ELSE IF IsString(symbol) THEN Returns(<<Fallback(symbol, quote.message)>>)
     ELSE Throws(TypeErrorMessage)

QuotePromise(service, apiKey, symbol, outcome) ==
  IF service = "yahoo" THEN YahooQuotePromise(symbol, outcome)
  ELSE FinnhubQuotePromise(apiKey, symbol, outcome)

\* await Promise.all(promises); the outer catch rethrows
getMultipleQuotes(service, apiKey, symbols, outcomes) ==
  LET promises == [i \in 1..Len(symbols) |->
                     QuotePromise(service, apiKey, symbols[i], outcomes[i])]
      rejected == {i \in 1..Len(symbols) : promises[i].kind = "throws"}
  IN IF rejected # {}
     THEN Throws(promises[CHOOSE i \in rejected : \A j \in rejected : i <= j].message)
     ELSE Returns([i \in 1..Len(symbols) |-> promises[i].value[1]])

\* GET /api/market/quote/:symbol
QuoteStatus(service, result) ==
  CASE result.kind = "throws" -> 500
    [] service = "yahoo" /\ result.value = <<>> -> 404
    [] OTHER -> 200

\* POST /api/market/quotes
QuotesStatus(symbols, result) ==
  CASE Len(symbols) = 0 \/ Len(symbols) > 20 -> 400
    [] result.kind = "throws" -> 500
    [] OTHER -> 200

SeqsUpTo(S, n) == UNION {[1..k -> S] : k \in 1..n}

\* a call that has been made and has not run yet
Pending(service, fn, apiKey, symbols, outcomes) ==
  [service |-> service, fn |-> fn, apiKey |-> apiKey, symbols |-> symbols,
   outcomes |-> outcomes,
   result |-> [kind |-> "pending", value |-> <<>>, message |-> ""], status |-> 0]

\* the calls the routes make: getQuote with req.params.symbol (a string),
\* getMultipleQuotes with req.body.symbols (any non-empty array); the API
\* key is FinnhubService's
ServiceKeys == {<<"yahoo", TRUE>>, <<"finnhub", TRUE>>, <<"finnhub", FALSE>>}

PendingCalls ==
  {Pending(sk[1], "getQuote", sk[2], <<symbol>>, <<outcome>>) :
     sk \in ServiceKeys, symbol \in BackendSymbols, outcome \in ProviderOutcomes}
  \cup
  {Pending(call[1][1], "getMultipleQuotes", call[1][2], call[2], call[3]) :
     call \in {c \in ServiceKeys \X SeqsUpTo(BatchElements, MaxSymbols)
                       \X SeqsUpTo(ProviderOutcomes, MaxSymbols) :
                 Len(c[2]) = Len(c[3])}}

BackendGetQuote ==
  /\ quoted.fn = "getQuote"
  /\ quoted.result.kind = "pending"
  /\ LET result == getQuote(quoted.service, quoted.apiKey, quoted.symbols[1],
                            quoted.outcomes[1])
     IN quoted' = [quoted EXCEPT !.result = result,
                                 !.status = QuoteStatus(quoted.service, result)]
  /\ UNCHANGED <<clock, cache, inflight, event, session>>
  /\ UNCHANGED <<version, now, entries, nextEntryId, focus, nextFocusId, req, resp>>

BackendGetMultipleQuotes ==
  /\ quoted.fn = "getMultipleQuotes"
  /\ quoted.result.kind = "pending"
  /\ LET result == getMultipleQuotes(quoted.service, quoted.apiKey, quoted.symbols,
                                     quoted.outcomes)
     IN quoted' = [quoted EXCEPT !.result = result,
                                 !.status = QuotesStatus(quoted.symbols, result)]
  /\ UNCHANGED <<clock, cache, inflight, event, session>>
  /\ UNCHANGED <<version, now, entries, nextEntryId, focus, nextFocusId, req, resp>>

\* the symbols formatSymbol is given: a ticker in some spelling, with or
\* without an exchange suffix, with or without blanks around it
FormatInputs ==
  LET cores == {"tcs", "TCS", "Tcs", "lt", "infy", "aapl", "AAPL", "tcsx", ""}
      suffixes == {"", ".ns", ".NS", ".bo", ".", ".NS.NS"}
      pads == {"", " ", "  "}
  IN {before \o core \o suffix \o after :
        before \in pads, core \in cores, suffix \in suffixes, after \in pads}

\* this.formatSymbol(symbol), the first statement of getQuote
BackendFormatSymbol ==
  /\ quoted.fn = "formatSymbol"
  /\ quoted.result.kind = "pending"
  /\ quoted' = [quoted EXCEPT !.result = Returns(<<formatSymbol(quoted.symbols[1])>>)]
  /\ UNCHANGED <<clock, cache, inflight, event, session>>
  /\ UNCHANGED <<version, now, entries, nextEntryId, focus, nextFocusId, req, resp>>

NextFormat == BackendFormatSymbol

InitFormat ==
  /\ InitServer /\ version = 2 /\ session = NoSession
  /\ quoted \in {Pending("yahoo", "formatSymbol", TRUE, <<symbol>>, <<"price">>) :
                   symbol \in FormatInputs}

SpecFormat == InitFormat /\ [][NextFormat]_vars

NextQuotes ==
  \/ BackendGetQuote
  \/ BackendGetMultipleQuotes

InitQuotes == InitServer /\ version = 2 /\ quoted \in PendingCalls /\ session = NoSession

SpecQuotes == InitQuotes /\ [][NextQuotes]_vars

----------------------------------------------------------------------------
(* src/services/api.ts and hooks/useAuth: the session the browser keeps.   *)
(* localStorage is the set of the item names it holds.  A call returns or  *)
(* throws; `storage` is localStorage after it.                              *)

SessionItems == {"authToken", "currentUser"}

HtmlMessage == "Backend returned HTML instead of JSON. Server may be down or misconfigured."
ExpiredMessage == "Session expired. Please login again."

\* what fetch can come back with: a rejection, or a response.  A body that
\* is not JSON carries no requiresEmailVerification.
Responses ==
  {[NoResponse EXCEPT !.kind = "rejects"]} \cup
  {r \in [kind : {"response"}, status : {200, 401, 500},
          contentType : {"application/json", HtmlType, ""}, parses : BOOLEAN,
          requiresEmailVerification : BOOLEAN] :
     /\ r.requiresEmailVerification => r.parses /\ r.status = 401
     /\ r.contentType = "application/json" => r.parses}

SessionReturns(storage) == [kind |-> "returns", storage |-> storage, message |-> ""]
SessionThrows(storage, message) == [kind |-> "throws", storage |-> storage, message |-> message]

\* ApiService.handleResponse: the HTML test, then response.json(), then the
\* status
handleResponse(storage, response) ==
  IF response.contentType = HtmlType THEN SessionThrows(storage, HtmlMessage)
  ELSE IF ~response.parses THEN SessionThrows(storage, "SyntaxError")
  ELSE IF response.status # 200
       THEN IF response.status = 401
            THEN IF response.requiresEmailVerification
                 THEN SessionThrows(storage, "Email verification required")
                 ELSE SessionThrows(storage \ SessionItems, ExpiredMessage)
            ELSE SessionThrows(storage, "HTTP error")
  ELSE SessionReturns(storage)

\* ApiService.makeRequest: fetch, then handleResponse; every error is logged
\* and thrown again
makeRequest(storage, response) ==
  IF response.kind = "rejects" THEN SessionThrows(storage, "Failed to fetch")
  ELSE handleResponse(storage, response)

\* a logout that clears the items only when the server has answered
ApiServiceLogoutOnSuccess(storage, response) ==
  LET request == makeRequest(storage, response)
  IN IF request.kind = "returns" THEN SessionReturns(request.storage \ SessionItems)
     ELSE SessionReturns(request.storage)

\* ApiService.logout: try the request, warn in catch, remove both items in
\* finally
ApiServiceLogout(storage, response) ==
  SessionReturns(makeRequest(storage, response).storage \ SessionItems)

\* ApiService.login: the token of a successful answer is stored
ApiServiceLogin(storage, response) ==
  LET request == makeRequest(storage, response)
  IN IF request.kind = "returns"
     THEN SessionReturns(request.storage \cup {"authToken"})
     ELSE request

Acted(op, response, result) ==
  [session EXCEPT !.op = op, !.response = response, !.had = session.storage,
                  !.storage = result.storage, !.raised = result.message]

\* useAuth.login: a successful answer (success, token and user) signs the
\* user in; when the backend answers HTML the users kept in localStorage are
\* searched instead (known: the credentials are among them)
UseAuthLogin(response, known) ==
  /\ LET result == ApiServiceLogin(session.storage, response)
     IN IF result.kind = "returns"
        THEN session' = [Acted("login", response,
                               SessionReturns(result.storage \cup {"currentUser"}))
                           EXCEPT !.isAuthenticated = TRUE, !.user = "user"]
        ELSE IF result.message = HtmlMessage
        THEN IF known
             THEN session' = [Acted("login", response,
                                    SessionReturns(result.storage \cup {"currentUser"}))
                                EXCEPT !.isAuthenticated = TRUE, !.user = "user"]
             ELSE session' = Acted("login", response,
                               SessionThrows(result.storage, "Invalid email or password"))
        ELSE session' = Acted("login", response, result)
  /\ UNCHANGED <<clock, cache, inflight, event, quoted>>
  /\ UNCHANGED <<version, now, entries, nextEntryId, focus, nextFocusId, req, resp>>

\* useAuth.logout: apiService.logout(), then in finally the state is reset
\* and currentUser removed
UseAuthLogout(response) ==
  /\ LET result == ApiServiceLogout(session.storage, response)
     IN session' = [Acted("logout", response,
                          SessionReturns(result.storage \ {"currentUser"}))
                      EXCEPT !.isAuthenticated = FALSE, !.user = ""]
  /\ UNCHANGED <<clock, cache, inflight, event, quoted>>
  /\ UNCHANGED <<version, now, entries, nextEntryId, focus, nextFocusId, req, resp>>

\* any other call of ApiService (getJournalEntries, getUserProfile, ...):
\* makeRequest and nothing else
ApiRequest(response) ==
  /\ session' = Acted("request", response, makeRequest(session.storage, response))
  /\ UNCHANGED <<clock, cache, inflight, event, quoted>>
  /\ UNCHANGED <<version, now, entries, nextEntryId, focus, nextFocusId, req, resp>>

NextSession ==
  \/ \E response \in Responses, known \in BOOLEAN : UseAuthLogin(response, known)
  \/ \E response \in Responses : UseAuthLogout(response)
  \/ \E response \in Responses : ApiRequest(response)

SpecSession == InitV2 /\ [][NextSession]_vars

----------------------------------------------------------------------------
(* Properties of the journal entries *)

IsPost == req.op = "POST /journal-entries"
IsPut == req.op = "PUT /journal-entries/:id"

\* a payload that satisfies the rules of the entry validator (spec 4.1)
ValidPayload(b, t) ==
  /\ StrLen(Trim(b.stockName)) \in 1..20
  /\ b.entryPrice # Undefined /\ b.entryPrice > 0
  /\ b.currentPrice # Undefined /\ b.currentPrice > 0
  /\ b.entryDate # Undefined /\ b.entryDate <= EndOfDay(t)
  /\ b.status \in {"open", "closed"}
  /\ b.quantity = Undefined \/ b.quantity >= 1
  /\ b.status = "closed" =>
       /\ b.exitPrice # Undefined /\ b.exitPrice > 0
       /\ b.exitDate # Undefined /\ b.exitDate >= b.entryDate
       /\ b.exitDate <= EndOfDay(t)

\* p is the fraction n / d
IsRatio(p, n, d) == p[1] * d = n * p[2]

\* the stored derived fields of e are what the P&L rules give for its
\* stored source fields
PnlHolds(e) ==
  /\ e.status = "closed" =>
       /\ e.pnl = (e.exitPrice - e.entryPrice) * e.quantity
       /\ IsRatio(e.pnlPercentage, (e.exitPrice - e.entryPrice) * 100, e.entryPrice)
       /\ e.currentPrice = e.exitPrice
  /\ e.status = "open" =>
       /\ e.pnl = (e.currentPrice - e.entryPrice) * e.quantity
       /\ IsRatio(e.pnlPercentage, (e.currentPrice - e.entryPrice) * 100, e.entryPrice)

\* C1: the entry a POST with a valid payload stores has
\* pnl = (exitPrice - entryPrice) * quantity,
\* pnlPercentage = (exitPrice - entryPrice) * 100 / entryPrice and
\* currentPrice = exitPrice when closed, and the same with currentPrice for
\* exitPrice when open.
PnlOnCreate ==
  (IsPost /\ resp.status = 201 /\ ValidPayload(req.body, now))
    => PnlHolds(entries[resp.id])

\* a closed entry of quantity 10 has just been created with pnl 100
PnlOnCreateWitness ==
  /\ IsPost /\ resp.status = 201 /\ ValidPayload(req.body, now)
  /\ entries[resp.id].status = "closed"
  /\ entries[resp.id].quantity = 10
  /\ entries[resp.id].pnl = 100
  /\ entries[resp.id].pnlPercentage = <<20, 3>>

\* C2: after any sequence of successful POST and PUT requests every stored
\* entry's pnl and pnlPercentage are what the P&L formula gives for its
\* stored entryPrice, quantity, status, currentPrice and exitPrice, and a
\* closed entry's currentPrice equals its exitPrice.
PnlMatchesStoredFields ==
  \A id \in DOMAIN entries :
    (entries[id].status = "closed" => entries[id].exitPrice # Undefined)
      => PnlHolds(entries[id])

\* C3: every stored entry's year is the calendar year of its stored
\* entryDate and its month the long English month name of it; no month or
\* year a client sends is stored.
MonthYearFollowEntryDate ==
  \A id \in DOMAIN entries :
    /\ entries[id].year = GetFullYear(entries[id].entryDate)
    /\ entries[id].month = MonthLong(entries[id].entryDate)

\* C4: a stored entry has exitPrice and exitDate if and only if its status
\* is closed, and an exitDate it has is not earlier than its entryDate.
ExitFieldsIffClosed ==
  \A id \in DOMAIN entries :
    /\ (entries[id].exitPrice # Undefined /\ entries[id].exitDate # Undefined)
         <=> entries[id].status = "closed"
    /\ entries[id].exitDate # Undefined => entries[id].exitDate >= entries[id].entryDate

\* the request of this step leaves entry id closed, and it was not before
BecomesClosed(id) ==
  /\ id \in DOMAIN entries'
  /\ entries'[id].status = "closed"
  /\ id \in DOMAIN entries => entries[id].status # "closed"

\* C5: a stored closed entry never goes back to open, and every request
\* that makes an entry closed carries exitPrice and exitDate.
StatusOneWay ==
  [][/\ \A id \in DOMAIN entries \cap DOMAIN entries' :
          entries[id].status = "closed" => entries'[id].status = "closed"
     /\ \A id \in EntryIds :
          BecomesClosed(id) =>
            req'.body.exitPrice # Undefined /\ req'.body.exitDate # Undefined]_vars

\* the payloads C6 lists: empty stockName, non-positive entryPrice, an
\* entryDate in the future, closed without exitPrice or exitDate, closed
\* with an exitDate earlier than entryDate
MustBeRejected(b, t) ==
  \/ Trim(b.stockName) = ""
  \/ b.entryPrice = Undefined \/ b.entryPrice <= 0
  \/ b.entryDate > t
  \/ b.status = "closed" /\ (b.exitPrice = Undefined \/ b.exitDate = Undefined)
  \/ b.status = "closed" /\ b.exitDate # Undefined /\ b.exitDate < b.entryDate

\* C6: a create or update request with one of these payloads is answered
\* 400 and leaves the collection as it was, in both revisions of the chain.
InvalidPayloadRejected ==
  [][((req'.op = "POST /journal-entries" \/ req'.op = "PUT /journal-entries/:id")
        /\ MustBeRejected(req'.body, now'))
       => (resp'.status = 400 /\ entries' = entries)]_vars

\* the fields of b whose validator rule (spec 4.1) b violates
ViolatedFields(b, t) ==
  {f \in {"stockName", "entryPrice", "entryDate", "exitPrice", "exitDate"} :
     \/ f = "stockName" /\ Trim(b.stockName) = ""
     \/ f = "entryPrice" /\ (b.entryPrice = Undefined \/ b.entryPrice <= 0)
     \/ f = "entryDate" /\ b.entryDate > EndOfDay(t)
     \/ f = "exitPrice" /\ b.status = "closed"
          /\ (b.exitPrice = Undefined \/ b.exitPrice <= 0)
     \/ f = "exitDate" /\ b.status = "closed"
          /\ (b.exitDate = Undefined \/ b.exitDate < b.entryDate)}

\* C7: the 400 response to a request that violates several rules lists
\* every violated rule, each error with the field, the message and the
\* rejected value.
AllErrorsTagged ==
  ((IsPost \/ IsPut) /\ resp.status = 400) =>
    /\ \A i \in 1..Len(resp.errors) :
         {"field", "msg", "value"} \subseteq DOMAIN resp.errors[i]
    /\ \A f \in ViolatedFields(req.body, now) :
         \E i \in 1..Len(resp.errors) :
           "field" \in DOMAIN resp.errors[i] /\ resp.errors[i].field = f

----------------------------------------------------------------------------
(* Properties of the aggregations and of the access to single records *)

\* the years a client asks the monthly performance of; Undefined: none given
Years == {2023, 2024, Undefined}

StatsOf(store, a, t) ==
  [stats |-> getUserStats(store, a),
   monthly |-> [y \in Years |-> getMonthlyPerformance(store, a, y, t)]]

\* C8: a create, update or delete request issued by another owner leaves
\* the results of getUserStats(a) and getMonthlyPerformance(a, year), for
\* every year, as they were.
StatsScopedToOwner ==
  [][\A a \in Users :
       req'.user # a => StatsOf(entries', a, now') = StatsOf(entries, a, now)]_vars

\* both owners hold entries, the other owner's request has just succeeded,
\* and the sum over the whole collection is not the owner's totalPnL
StatsScopedToOwnerWitness ==
  /\ MatchUser(entries, "A") # {}
  /\ MatchUser(entries, "B") # {}
  /\ req.user = "B"
  /\ resp.status \in {200, 201}
  /\ SumPnl(entries, MatchUser(entries, "B")) # 0
  /\ getUserStats(entries, "A").totalPnL = SumPnl(entries, MatchUser(entries, "A"))

ForeignEntries(u) == {i \in DOMAIN entries : entries[i].user # u}
MissingEntries == (EntryIds \cup {nextEntryId}) \ DOMAIN entries
ForeignFocus(u) == {i \in DOMAIN focus : focus[i].user # u}
MissingFocus == (FocusIds \cup {nextFocusId}) \ DOMAIN focus

\* the outcome for another user's record is the outcome for a missing
\* record, it is not a success, and it leaves the collection alone
SameAsMissing(foreign, missing, store) ==
  /\ foreign = missing
  /\ foreign.resp.status \notin {200, 201}
  /\ foreign.store = store

\* C9: GET, PUT and DELETE of a journal entry and GET, PUT, PATCH mark-taken
\* and DELETE of a focus stock answer a request naming another user's record
\* exactly as a request naming no record (404 for GET and DELETE and for
\* every PUT or PATCH not rejected before the lookup), and leave the other
\* user's record unchanged.
NoExistenceLeak ==
  \A u \in Users :
    /\ \A i \in ForeignEntries(u), j \in MissingEntries :
         /\ SameAsMissing(GetEntryOutcome(entries, u, i),
                          GetEntryOutcome(entries, u, j), entries)
         /\ GetEntryOutcome(entries, u, i).resp.status = 404
         /\ SameAsMissing(DeleteEntryOutcome(entries, u, i),
                          DeleteEntryOutcome(entries, u, j), entries)
         /\ DeleteEntryOutcome(entries, u, i).resp.status = 404
         /\ \A body \in JournalBodies :
              SameAsMissing(PutEntryOutcome(version, now, entries, u, i, body),
                            PutEntryOutcome(version, now, entries, u, j, body), entries)
         /\ PutEntryOutcome(version, now, entries, u, i, BaseBody).resp.status = 404
    /\ \A i \in ForeignFocus(u), j \in MissingFocus :
         /\ SameAsMissing(GetFocusOutcome(focus, u, i),
                          GetFocusOutcome(focus, u, j), focus)
         /\ GetFocusOutcome(focus, u, i).resp.status = 404
         /\ SameAsMissing(DeleteFocusOutcome(focus, u, i),
                          DeleteFocusOutcome(focus, u, j), focus)
         /\ DeleteFocusOutcome(focus, u, i).resp.status = 404
         /\ \A body \in FocusBodies :
              SameAsMissing(PutFocusOutcome(focus, u, i, body),
                            PutFocusOutcome(focus, u, j, body), focus)
         /\ PutFocusOutcome(focus, u, i, BaseFocusBody).resp.status = 404
         /\ \A body \in MarkBodies :
              SameAsMissing(MarkTakenOutcome(now, focus, u, i, body),
                            MarkTakenOutcome(now, focus, u, j, body), focus)
         /\ MarkTakenOutcome(now, focus, u, i, BaseFocusBody).resp.status = 404

\* every journal entry and every focus stock belongs to B, and A's request
\* for one of them has just been answered 404
NoExistenceLeakWitness ==
  /\ DOMAIN entries = EntryIds
  /\ DOMAIN focus = FocusIds
  /\ ForeignEntries("A") = EntryIds
  /\ ForeignFocus("A") = FocusIds
  /\ req.user = "A"
  /\ req.op = "PATCH /focus-stocks/:id/mark-taken"
  /\ resp.status = 404

\* C10: in every state of the store a focus stock has tradeTaken = true
\* exactly when its tradeDate is present and not earlier than its dateAdded.
TradeTakenIffTradeDate ==
  \A id \in DOMAIN focus :
    (focus[id].tradeTaken = "true") <=>
      (focus[id].tradeDate # Undefined /\ focus[id].tradeDate >= focus[id].dateAdded)

----------------------------------------------------------------------------
(* Properties of the focus stocks' derived fields and of ownership *)

\* C11: every stored focus stock has potentialReturn = targetPrice -
\* currentPrice and potentialReturnPercentage = potentialReturn /
\* currentPrice * 100 for its stored prices, whatever creates and updates
\* (price changes, bodies with a potentialReturn of their own) came before.
PotentialReturnFollowsPrices ==
  \A id \in DOMAIN focus :
    /\ focus[id].potentialReturn = focus[id].targetPrice - focus[id].currentPrice
    /\ focus[id].potentialReturnPercentage =
         Ratio((focus[id].targetPrice - focus[id].currentPrice) * 100,
               focus[id].currentPrice)

\* C12: a record's owner is the requester that created it and no create,
\* PUT or PATCH changes the owner of a stored journal entry or focus stock.
OwnerNeverChanges ==
  [][/\ \A id \in DOMAIN entries' :
          entries'[id].user = IF id \in DOMAIN entries THEN entries[id].user
                              ELSE req'.user
     /\ \A id \in DOMAIN focus' :
          focus'[id].user = IF id \in DOMAIN focus THEN focus[id].user
                            ELSE req'.user]_vars

----------------------------------------------------------------------------
(* Properties of the statistics *)

\* the entries of owner a among the ids 1..n, summed one id at a time
RECURSIVE PnlUpTo(_, _)
PnlUpTo(a, n) ==
  IF n = 0 THEN 0
  ELSE PnlUpTo(a, n - 1)
       + (IF n \in DOMAIN entries /\ entries[n].user = a THEN entries[n].pnl ELSE 0)

RECURSIVE PercentageUpTo(_, _)
PercentageUpTo(a, n) ==
  IF n = 0 THEN <<0, 1>>
  ELSE RatioAdd(PercentageUpTo(a, n - 1),
                IF n \in DOMAIN entries /\ entries[n].user = a
                THEN entries[n].pnlPercentage ELSE <<0, 1>>)

\* C13: getUserStats gives an owner without entries the zero-filled record,
\* and an owner with entries the number of entries, the numbers open and
\* closed, the sum of pnl, the mean of pnlPercentage and the number of
\* team trades.
UserStatsRecord ==
  \A a \in Users :
    LET own == {i \in DOMAIN entries : entries[i].user = a}
        st == getUserStats(entries, a)
    IN IF own = {}
       THEN st = [totalTrades |-> 0, openTrades |-> 0, closedTrades |-> 0,
                  totalPnL |-> 0, avgPnLPercentage |-> <<0, 1>>, teamTrades |-> 0]
       ELSE /\ st.totalTrades = Cardinality(own)
            /\ st.openTrades = Cardinality({i \in own : entries[i].status = "open"})
            /\ st.closedTrades = Cardinality({i \in own : entries[i].status = "closed"})
            /\ st.totalPnL = PnlUpTo(a, MaxEntries)
            /\ Ratio(st.avgPnLPercentage[1] * Cardinality(own), st.avgPnLPercentage[2])
                 = PercentageUpTo(a, MaxEntries)
            /\ st.teamTrades = Cardinality({i \in own : entries[i].isTeamTrade})

\* A has no entry while B has an open team trade and a closed trade
UserStatsRecordWitness ==
  /\ MatchUser(entries, "A") = {}
  /\ getUserStats(entries, "A").totalTrades = 0
  /\ getUserStats(entries, "B").openTrades = 1
  /\ getUserStats(entries, "B").closedTrades = 1
  /\ getUserStats(entries, "B").teamTrades = 1
  /\ getUserStats(entries, "B").totalPnL = PnlUpTo("B", MaxEntries)

\* C14: conversionRate is takenStocks / totalFocusStocks * 100 for an owner
\* with focus stocks and 0 for an owner with none, and totalFocusStocks =
\* pendingStocks + takenStocks in every result.
ConversionRate ==
  \A a \in Users :
    LET st == getUserFocusStats(focus, a)
    IN /\ st.totalFocusStocks = st.pendingStocks + st.takenStocks
       /\ st.conversionRate = IF st.totalFocusStocks > 0
                              THEN Ratio(st.takenStocks * 100, st.totalFocusStocks)
                              ELSE <<0, 1>>

\* the focus stocks of owner a that are not taken, as stored
PendingOf(store, a) ==
  {<<i, store[i]>> : i \in {j \in MatchFocusUser(store, a) : store[j].tradeTaken = "false"}}

\* C15: averagePotentialReturn depends on the owner's focus stocks with
\* tradeTaken = false only: a step that adds, removes or changes only
\* other focus stocks leaves it as it was.
AverageOverPendingOnly ==
  [][\A a \in Users :
       PendingOf(focus', a) = PendingOf(focus, a)
         => getUserFocusStats(focus', a).averagePotentialReturn
              = getUserFocusStats(focus, a).averagePotentialReturn]_vars

\* the entries of owner a with year y and month m
InMonth(a, y, m) ==
  {i \in DOMAIN entries : entries[i].user = a /\ entries[i].year = y /\ entries[i].month = m}

RECURSIVE MonthPnlUpTo(_, _, _, _)
MonthPnlUpTo(a, y, m, n) ==
  IF n = 0 THEN 0
  ELSE MonthPnlUpTo(a, y, m, n - 1) + (IF n \in InMonth(a, y, m) THEN entries[n].pnl ELSE 0)

RECURSIVE MonthPercentageUpTo(_, _, _, _)
MonthPercentageUpTo(a, y, m, n) ==
  IF n = 0 THEN <<0, 1>>
  ELSE RatioAdd(MonthPercentageUpTo(a, y, m, n - 1),
                IF n \in InMonth(a, y, m) THEN entries[n].pnlPercentage ELSE <<0, 1>>)

\* string order of the month names that occur as grouping keys
KeyBefore(m1, m2) ==
  \E k, l \in 1..12 :
    /\ k < l
    /\ <<"April", "August", "December", "February", "January", "July", "June",
         "March", "May", "November", "October", "September">>[k] = m1
    /\ <<"April", "August", "December", "February", "January", "July", "June",
         "March", "May", "November", "October", "September">>[l] = m2

----------------------------------------------------------------------------
(* Properties of the quote services *)

\* a getQuote call made less than 60000 ms after the quote of its key was
\* stored is served that quote and issues no request; any other issues one
WindowOnCall ==
  (event.fn = "getQuote" /\ event.phase = "called") =>
    IF event.cachedAt # Undefined /\ event.calledAt - event.cachedAt < 60000
    THEN /\ ~event.requested
         /\ Len(event.served) = 1
         /\ event.served[1].timestamp = event.cachedAt
         /\ event.served[1].data.symbol = ToUpperCase(event.symbols[1])
    ELSE event.requested /\ event.served = <<>>

\* C17: quotes are cached per upper-cased symbol for 60000 ms: a getQuote
\* call within the window returns the stored quote without a request, a call
\* at 60000 ms or later issues a request, and a stored quote is never
\* returned once it is 60000 ms old or older.
QuoteCacheWindow ==
  /\ WindowOnCall
  /\ \A k \in 1..Len(event.served) : event.at - event.served[k].timestamp < 60000

\* C17 as amended: the same, the age of a stored quote taken when the call
\* is made: no call made 60000 ms or more after a quote was stored is
\* served that quote.
QuoteCacheWindowAtCall ==
  /\ WindowOnCall
  /\ \A k \in 1..Len(event.served) : event.calledAt - event.served[k].timestamp < 60000

\* a getQuote call is served a quote stored 59999 ms before
QuoteCacheWindowWitness ==
  /\ event.fn = "getQuote"
  /\ event.phase = "called"
  /\ ~event.requested
  /\ event.calledAt - event.cachedAt = 59999
  /\ event.served[1].timestamp = event.cachedAt

\* the provider call of the i-th symbol of the last backend call failed
ProviderFailed(i) ==
  quoted.outcomes[i] # "price" \/ (quoted.service = "finnhub" /\ ~quoted.apiKey)

\* C18: getQuote of a quote service never throws to its caller, whatever
\* the provider call does (error, timeout, missing price data), and returns
\* a no-data value when the provider call failed
GetQuoteNeverThrows ==
  quoted.fn = "getQuote" /\ quoted.result.kind # "pending" =>
    /\ quoted.result.kind = "returns"
    /\ ProviderFailed(1) => quoted.result.value = <<>>

\* C19: the backend getMultipleQuotes returns, for every input list, exactly
\* one result per input symbol in input order: { symbol, error,
\* currentPrice: null } for a symbol whose provider call failed and the quote
\* for every other symbol; it never fails as a whole
OneResultPerSymbol ==
  quoted.fn = "getMultipleQuotes" /\ quoted.result.kind # "pending" =>
    /\ quoted.result.kind = "returns"
    /\ Len(quoted.result.value) = Len(quoted.symbols)
    /\ \A i \in 1..Len(quoted.symbols) :
         LET result == quoted.result.value[i]
         IN IF ProviderFailed(i)
            THEN /\ result.symbol = ToUpperCase(quoted.symbols[i])
                 /\ result.error # ""
                 /\ result.currentPrice = Undefined
            ELSE /\ result.symbol = ToUpperCase(quoted.symbols[i])
                 /\ result.error = ""
                 /\ result.currentPrice = 100

----------------------------------------------------------------------------
(* Properties of the pre-save computation *)

\* the fields the hook writes
HookFields(d) == <<d.pnl, d.pnlPercentage, d.currentPrice, d.month, d.year>>

\* the last request ran the hook on entry id and stored the result
HookRanOn(r, a, id) ==
  /\ r.op \in {"POST /journal-entries", "entry.save()"}
  /\ a.status \in {200, 201}
  /\ a.id = id

\* C20: the pre-save computation is idempotent: run a second time on an
\* entry it has already run on, with no input field changed in between, it
\* leaves pnl, pnlPercentage, currentPrice, month and year as they were
\* after the first run, for open and for closed entries
PreSaveIdempotent ==
  [][\A id \in DOMAIN entries :
       HookRanOn(req, resp, id) /\ HookRanOn(req', resp', id) /\ req'.op = "entry.save()"
         => HookFields(entries'[id]) = HookFields(entries[id])]_vars

\* an open and a closed entry, the closed one with a profit and a currentPrice
\* that the hook has overwritten, saved a second time
PreSaveIdempotentWitness ==
  /\ HookRanOn(req, resp, 1)
  /\ req.op = "entry.save()"
  /\ DOMAIN entries = {1, 2}
  /\ entries[1].status = "closed"
  /\ entries[1].pnl = 100
  /\ entries[1].currentPrice = entries[1].exitPrice
  /\ entries[2].status = "open"
  /\ entries[2].pnl # 0

----------------------------------------------------------------------------
(* Properties of single requests on journal entries *)

\* the payload carries an exit field
SuppliesExit(b) == b.exitPrice # Undefined \/ b.exitDate # Undefined

\* C21: a create request with status open that supplies exitPrice and/or
\* exitDate is accepted if it is otherwise valid; the stored entry has no
\* exitPrice and no exitDate and its pnl is computed from currentPrice, not
\* from the supplied exitPrice
OpenCreateIgnoresExit ==
  (IsPost /\ req.body.status = "open" /\ SuppliesExit(req.body)
     /\ ValidPayload(req.body, now))
    => /\ resp.status = 201
       /\ entries[resp.id].exitPrice = Undefined
       /\ entries[resp.id].exitDate = Undefined
       /\ entries[resp.id].pnl
            = (req.body.currentPrice - req.body.entryPrice)
                * (IF req.body.quantity = Undefined THEN 1 ELSE req.body.quantity)
       /\ IsRatio(entries[resp.id].pnlPercentage,
                  (req.body.currentPrice - req.body.entryPrice) * 100,
                  req.body.entryPrice)

\* an open entry of quantity 10 created from a payload with exit price 170
\* and an exit date: stored without them, pnl (160 - 150) * 10 from
\* currentPrice 160
OpenCreateIgnoresExitWitness ==
  /\ IsPost /\ resp.status = 201
  /\ req.body.status = "open"
  /\ req.body.exitPrice = 170
  /\ req.body.exitDate = Date(2024, 1, 12, 0)
  /\ entries[resp.id].exitPrice = Undefined
  /\ entries[resp.id].quantity = 10
  /\ entries[resp.id].pnl = 100

----------------------------------------------------------------------------
(* Properties of concurrent calls of the MarketService *)

\* this step is the return of a pending call
IsReturn == inflight' # inflight /\ inflight' \subseteq inflight

\* the slot has a call waiting for its response
Pending1(slot) == \E call \in inflight : call.slot = slot

----------------------------------------------------------------------------
(* Properties of concurrent edits *)

\* C23: concurrent edits of one journal entry are last-write-wins: when two
\* PUT requests on the entry both succeed (findOneAndUpdate applies them one
\* after the other), the stored entry equals the entry the later request
\* alone would have produced; no value the earlier request wrote survives,
\* exitPrice and exitDate included
LastWriteWins ==
  \A id \in DOMAIN entries : \A earlier \in ValidBodies, later \in ValidBodies :
    LET u == entries[id].user
        first == PutEntryOutcome(version, now, entries, u, id, earlier)
        second == PutEntryOutcome(version, now, first.store, u, id, later)
        alone == PutEntryOutcome(version, now, entries, u, id, later)
    IN (first.resp.status = 200 /\ second.resp.status = 200)
         => second.store[id] = alone.store[id]

\* the PUT of an open payload with quantity 10 and currentPrice 140 has
\* succeeded, and a PUT of the base payload after it succeeds and replaces
\* both values
LastWriteWinsWitness ==
  /\ IsPut /\ resp.status = 200
  /\ req.body = OpenDecBody
  /\ entries[resp.id].quantity = 10
  /\ entries[resp.id].currentPrice = 140
  /\ LET second == PutEntryOutcome(version, now, entries, "A", resp.id, BaseBody)
     IN /\ second.resp.status = 200
        /\ second.store[resp.id].quantity = 1
        /\ second.store[resp.id].currentPrice = 160

----------------------------------------------------------------------------
(* Properties of the stored prices and dates *)

\* C24: every journal entry that create and update requests can store has
\* entryPrice > 0, so the pnlPercentage division, whose denominator is
\* entryPrice, is defined in every reachable state
EntryPricePositive ==
  /\ \A id \in DOMAIN entries :
       /\ entries[id].entryPrice # Undefined
       /\ entries[id].entryPrice > 0
       /\ entries[id].pnlPercentage[2] > 0
  /\ (IsPost /\ resp.status = 201) =>
       IsRatio(entries[resp.id].pnlPercentage,
               ((IF entries[resp.id].status = "closed"
                 THEN entries[resp.id].exitPrice
                 ELSE entries[resp.id].currentPrice) - entries[resp.id].entryPrice) * 100,
               entries[resp.id].entryPrice)

\* an entry with the entry price 1 is stored with the percentage
\* (160 - 1) * 100 / 1, and a create request with entry price 0 has been
\* answered 400
EntryPricePositiveWitness ==
  /\ IsPost /\ resp.status = 400
  /\ req.body.entryPrice = 0
  /\ \E id \in DOMAIN entries :
       /\ entries[id].entryPrice = 1
       /\ entries[id].pnlPercentage = <<15900, 1>>

\* C25: the entry-date rule has end-of-day tolerance: a create request
\* whose entryDate is later than the current instant but not later than
\* 23:59:59.999 of the current day is accepted and persisted, one with a
\* later entryDate is rejected with a validation failure
EndOfDayTolerance ==
  (IsPost /\ req.body.entryDate # Undefined /\ req.body.entryDate > now
     /\ ValidPayload([req.body EXCEPT !.entryDate = now], now)
     /\ (req.body.status = "closed" => req.body.exitDate >= req.body.entryDate))
    => IF req.body.entryDate <= EndOfDay(now)
       THEN /\ resp.status = 201
            /\ resp.id \in DOMAIN entries
            /\ entries[resp.id].entryDate = req.body.entryDate
       ELSE resp.status = 400 /\ resp.message = "Validation failed"

----------------------------------------------------------------------------
(* Properties of the MarketService on failing requests *)

\* C26: getMultipleQuotes degrades per symbol: every requested symbol with
\* a cache entry younger than 60000 ms has that cached quote in the returned
\* list, also when the request for the uncached symbols fails or an uncached
\* symbol comes back with currentPrice null; symbols without data are
\* omitted and never cached
DegradesPerSymbol ==
  [][\A call \in inflight \ inflight' :
       call.fn = "getMultipleQuotes" =>
         /\ \A k \in 1..Len(call.served) :
              \E j \in 1..Len(event'.served) : event'.served[j] = call.served[k]
         /\ \A j \in 1..Len(event'.fetched) :
              event'.fetched[j].currentPrice # Undefined
         /\ \A key \in DOMAIN cache' : cache'[key].data.currentPrice # Undefined]_vars

\* C27: a getQuote call whose request fails or returns no data leaves the
\* cache exactly as it was and returns null; only a successful response with
\* data writes the cache, and the write touches only the key of the
\* requested symbol
GetQuoteFrame ==
  [][\A call \in inflight \ inflight' :
       call.fn = "getQuote" =>
         LET key == ToUpperCase(call.symbols[1])
         IN /\ \A outcome \in {"nodata", "throws"} :
                 GetQuoteResponse(call, outcome)
                   => cache' = cache /\ event'.fetched = <<>>
            /\ IF event'.fetched = <<>>
               THEN cache' = cache
               ELSE /\ DOMAIN cache' = DOMAIN cache \cup {key}
                    /\ cache'[key] = [data |-> event'.fetched[1], timestamp |-> clock]
                    /\ \A k \in DOMAIN cache \ {key} : cache'[k] = cache[k]]_vars

\* a getQuote call has returned null while the cache holds an entry for its
\* symbol and an entry for another symbol
GetQuoteFrameWitness ==
  /\ event.fn = "getQuote" /\ event.phase = "returned" /\ event.fetched = <<>>
  /\ ToUpperCase(event.symbols[1]) \in DOMAIN cache
  /\ cache[ToUpperCase(event.symbols[1])].timestamp >= event.calledAt
  /\ \E k \in DOMAIN cache : event.at - cache[k].timestamp >= CACHE_DURATION

----------------------------------------------------------------------------
(* Properties of the browser session *)

Cleared == session.storage \cap SessionItems = {}

LoggedOut ==
  session.op = "logout" => ~session.isAuthenticated /\ session.user = "" /\ Cleared

\* C28 as stated: logout always ends the local session (isAuthenticated
\* false, user null, authToken and currentUser removed) whether the server
\* request succeeds, fails or throws; and any 401 response that is not a
\* verification error removes authToken and currentUser before the error is
\* raised
LogoutAndEvery401 ==
  /\ LoggedOut
  /\ (session.op = "request" /\ session.response.status = 401
        /\ ~session.response.requiresEmailVerification)
       => Cleared /\ session.raised # ""

\* C28: logout always ends the local session; and a 401 response that is
\* read as JSON (its content type is not text/html and its body parses) and
\* is not a verification error removes authToken and currentUser before
\* 'Session expired' is raised, while a 401 response that is HTML or does not
\* parse raises its error with localStorage as it was
LogoutAndJson401 ==
  /\ LoggedOut
  /\ (session.op = "request" /\ session.response.status = 401
        /\ ~session.response.requiresEmailVerification)
       => IF session.response.contentType # HtmlType /\ session.response.parses
          THEN Cleared /\ session.raised = ExpiredMessage
          ELSE session.storage = session.had /\ session.raised # ""

\* a signed-in user has logged out while the server request failed
LogoutAndJson401Witness ==
  /\ session.op = "logout"
  /\ session.had = SessionItems
  /\ session.response.kind = "rejects" \/ session.response.status = 500

----------------------------------------------------------------------------
(* Properties of the focus-stock statistics on empty input *)

AllTaken(a) ==
  /\ MatchFocusUser(focus, a) # {}
  /\ \A i \in MatchFocusUser(focus, a) : focus[i].tradeTaken = "true"

\* C29: getUserFocusStats distinguishes two empty cases: for an owner with
\* no focus stocks averagePotentialReturn is 0; for an owner whose focus
\* stocks all have tradeTaken = true it is null, not 0
TwoEmptyCases ==
  \A a \in Users :
    /\ MatchFocusUser(focus, a) = {}
         => getUserFocusStats(focus, a).averagePotentialReturn = <<0, 1>>
    /\ AllTaken(a)
         => /\ getUserFocusStats(focus, a).averagePotentialReturn = NullRatio
            /\ getUserFocusStats(focus, a).averagePotentialReturn # <<0, 1>>

\* an owner has two focus stocks, both taken
TwoEmptyCasesWitness ==
  \E a \in Users : AllTaken(a) /\ Cardinality(MatchFocusUser(focus, a)) > 1

----------------------------------------------------------------------------
(* Properties of YahooFinanceService.formatSymbol *)

\* C30: formatSymbol upper-cases and trims its input, appends '.NS' exactly
\* when the cleaned symbol is one of the listed Indian tickers, returns every
\* other cleaned symbol (any symbol with a '.' among them) unchanged, and is
\* idempotent: formatSymbol(formatSymbol(s)) = formatSymbol(s)
FormatSymbolIdempotent ==
  (quoted.fn = "formatSymbol" /\ quoted.result.kind = "returns") =>
    LET cleanSymbol == trim(toUpperCase(quoted.symbols[1]))
        formatted == quoted.result.value[1]
    IN /\ cleanSymbol \in IndianStocks => formatted = cleanSymbol \o ".NS"
       /\ cleanSymbol \notin IndianStocks => formatted = cleanSymbol
       /\ includes(cleanSymbol, ".") => formatted = cleanSymbol
       /\ formatSymbol(formatted) = formatted

\* a listed ticker in lower case with blanks around it has been given its
\* suffix
FormatSymbolIdempotentWitness ==
  /\ quoted.fn = "formatSymbol" /\ quoted.result.kind = "returns"
  /\ quoted.symbols[1] = " tcs "
  /\ quoted.result.value[1] = "TCS.NS"

=============================================================================
